---- MODULE Spec2Model ----
(***************************************************************************)
(* Model of the message-routing layer of the Tari comms stack.             *)
(*                                                                         *)
(*  - OutboundMessaging (comms/src/protocol/messaging/outbound.rs): the    *)
(*    per-peer delivery worker: dial, open substream, stream messages,     *)
(*    flush the queue to failure events on a fatal error.                  *)
(*  - Forwarder (comms/dht/src/store_forward/forward.rs): forwarding of    *)
(*    inbound messages that failed to decrypt.                             *)
(*                                                                         *)
(* The worker is an async task: every .await of its code is a point where  *)
(* other tasks (producers, the event subscriber) may run, so the worker's  *)
(* position between two awaits is the variable pc.                         *)
(***************************************************************************)
EXTENDS Integers, Sequences, FiniteSets, TLC

\* ------------------------------------------------------------------ bounds
\* number of messages the producers enqueue in one run
MaxMsgs == 3
\* number of DialCancelled results the dialer returns in one run
MaxCancels == 2
\* capacity of the bounded messaging-event channel
EventCap == 2
\* number of public keys (peers) in the network
NumKeys == 3
\* largest neighbour count (number of peers of a neighbours broadcast)
MaxNeighbours == 2
\* number of messages inserted into the store in one run
MaxStored == 2
\* the last instant of the store's clock (instants are 0..MaxTime)
MaxTime == 1
\* number of distinct message tags of a send outcome
NumTags == 3
\* largest number of tags one Queued response carries
MaxTags == 3

\* number of bits of an identifier whose distances are taken
IdBits == 4
\* largest number of comparers chained by one builder
MaxComparers == 3
\* largest accumulated difficulty or height of a compared block header
MaxDifficulty == 1
\* number of blocks handed to handle_block
MaxBlocks == 2
\* largest retry limit of a BlockSyncConfig
MaxRetries == 2
\* largest height of the network's tip
MaxHeight == 3
Tags == 1..MaxMsgs

VARIABLES
    \* ---- OutboundMessaging
    pc,              \* position of the worker task
    cur,             \* out_msg: the message taken from request_rx (0: none)
    queue,           \* messages buffered in request_rx
    rx_closed,       \* request_rx.close() was called
    senders_open,    \* some producer still holds a sender of request_rx
    next_tag,        \* tag of the next message a producer enqueues
    events,          \* messages buffered in the messaging_events channel
    events_rx_alive, \* the receiver of messaging_events_tx still exists
    emitted,         \* history: every event the worker published, in order
    written,         \* frames written to the substream, in order
    result,          \* what run() returned ("none" while running)
    cancels,         \* number of DialCancelled results so far
    dial_result,     \* last result of conn_man_requester.dial_peer
    open_result,     \* result of conn.open_substream
    write_result,    \* result of the last framed.send
    flush_ret,       \* the error returned once the flush is over
    snapshot,        \* history: request_rx's buffer when it was closed
    env_failed,      \* history: tags whose to_envelope_bytes failed
    at_fault,        \* history: the worker's state when dial_peer,
                     \* open_substream or framed.send returned its error
    \* ---- Forwarder
    fpc,             \* position of Forwarder::handle
    fmsg,            \* the DecryptedDhtMessage being handled
    peers,           \* public keys known to the peer manager
    num_neighbours,  \* the neighbour count of the outbound dispatcher
    outbound_calls,  \* requests handed to outbound_service.send_raw
    next_calls,      \* number of calls of the next service
    fresult,         \* result of handle ("none" while running)
    \* ---- StoreAndForwardDatabase
    store,           \* the rows of stored_messages, in insertion order
    now,             \* the storage's clock
    next_id,         \* the id of the next inserted row
    last,            \* the last repository call: its arguments and result
    tie_order,       \* how the storage orders rows of equal stored_at
    retrieval,       \* a find_messages_for_peer call of one task, from its
                     \* start to its return, while other tasks write
    \* ---- SendMessageResponse
    response,        \* the SendMessageResponse resolve_ok is called on
    reply_rx,        \* the oneshot channel of a PendingDiscovery response
    resolve_pc,      \* position of resolve_ok
    resolved,        \* what resolve_ok returned
    \* ---- NodeId
    measured,        \* the last distance taken: both identifiers, the value
    \* ---- ChainStrengthComparerBuilder
    target,          \* the builder's target: None or the comparer built
    chained,         \* history: the comparers added, in the order of the calls
    compared,        \* the last compare() of the built comparer
    \* ---- InboundNodeCommsHandlers::handle_block
    hb_pc,           \* position of handle_block
    hb_block,        \* the block being handled (blocks are numbered; 0: none)
    source_peer,     \* the peer the block came from, or None
    subscribed,      \* the event stream accepts the next event
    add_block_result,\* what blockchain_db.add_block returned
    block_events,    \* every BlockEvent published, in order
    propagations,    \* every propagate_block call, in order
    hb_results,      \* what handle_block returned, one entry per block
    \* ---- BlockSyncInfo::synchronize_blocks
    sync_pc,         \* position of synchronize_blocks
    config,          \* the BlockSyncConfig
    chain,           \* the node's database and the network's chain
    sync_block_hash, \* the hash the walk or the download is at
    block_hashes,    \* the VecDeque of hashes to download
    to_download,     \* the hashes the for loop has not reached yet
    attempts,        \* the retry counter
    linked_to_chain, \* the walk reached a header of the local chain
    block,           \* the Option<Block> of the for loop's body
    added,           \* every block handed to add_block, in order
    sync_result,     \* what synchronize_blocks returned
    requests         \* history: every request sent to a peer, in order

workerVars == <<pc, cur, queue, rx_closed, senders_open, next_tag, events,
                events_rx_alive, emitted, written, result, cancels,
                dial_result, open_result, write_result, flush_ret, snapshot,
                env_failed, at_fault>>
fwdVars == <<fpc, fmsg, peers, num_neighbours, outbound_calls, next_calls,
             fresult>>
storeVars == <<store, now, next_id, last, tie_order>>
connVars == <<retrieval>>
respVars == <<response, reply_rx, resolve_pc, resolved>>
distVars == <<measured>>
cmpVars == <<target, chained, compared>>
blockVars == <<hb_pc, hb_block, source_peer, subscribed, add_block_result,
               block_events, propagations, hb_results>>
syncVars == <<sync_pc, config, chain, sync_block_hash, block_hashes,
              to_download, attempts, linked_to_chain, block, added,
              sync_result, requests>>
coreVars == <<distVars, cmpVars, blockVars, syncVars>>
commsVars == <<workerVars, fwdVars, storeVars, connVars, respVars>>
vars == <<commsVars, coreVars>>

\* ------------------------------------------------------------ MessagingEvent
MessageSent(t) == [type |-> "MessageSent", tag |-> t]
SendMessageFailed(t) == [type |-> "SendMessageFailed", tag |-> t]

CountEv(s, e) == Cardinality({i \in DOMAIN s : s[i] = e})
SeqRange(s) == {s[i] : i \in DOMAIN s}
SentTags(s) == SelectSeq(s, LAMBDA e : e.type = "MessageSent")
FailedTags(s) == SelectSeq(s, LAMBDA e : e.type = "SendMessageFailed")
TagsOf(s) == [i \in DOMAIN s |-> s[i].tag]
IsIncreasing(s) == \A i, j \in DOMAIN s : i < j => s[i] < s[j]

\* ------------------------------------------------------------------ channels
\* request_rx.next(): the receiver yields the oldest buffered message.
\* <<message, rest of the buffer>>
PopLast(q) == <<q[Len(q)], SubSeq(q, 1, Len(q) - 1)>>
Pop(q) == <<Head(q), Tail(q)>>

\* messaging_events_tx.send(ev).await on the bounded channel: waits until the
\* channel has room; returns Err at once when the receiver is gone. The worker
\* ignores the result (let _ = ...). EventCap is the room this worker's
\* sender sees (the channel's buffer and the sender's own slot).
CanPublish == ~events_rx_alive \/ Len(events) < EventCap

PublishDropOnFull(ev) ==
    /\ events' = IF events_rx_alive /\ Len(events) < EventCap
                   THEN Append(events, ev) ELSE events
    /\ emitted' = Append(emitted, ev)
Publish(ev) ==
    /\ CanPublish
    /\ events' = IF events_rx_alive THEN Append(events, ev) ELSE events
    /\ emitted' = Append(emitted, ev)

\* flush_all_messages_to_failed_event, first statement: request_rx.close().
\* err is the error the caller returns after the flush.
BeginFlush(err) ==
    /\ rx_closed' = TRUE
    /\ snapshot' = queue
    /\ flush_ret' = err
    /\ pc' = "flush"

\* --------------------------------------------------------- OutboundMessaging
NoFault == [tag |-> 0, queue |-> <<>>, written |-> <<>>, emitted |-> <<>>]
\* what the worker holds at the moment an await returns an error
Fault == [tag |-> cur, queue |-> queue, written |-> written,
          emitted |-> emitted]

WorkerInit ==
    /\ pc = "dial"
    /\ cur = 0
    /\ queue = <<>>
    /\ rx_closed = FALSE
    /\ senders_open = TRUE
    /\ next_tag = 1
    /\ events = <<>>
    /\ events_rx_alive = TRUE
    /\ emitted = <<>>
    /\ written = <<>>
    /\ result = "none"
    /\ cancels = 0
    /\ dial_result = "none"
    /\ open_result = "none"
    /\ write_result = "none"
    /\ flush_ret = "none"
    /\ snapshot = <<>>
    /\ env_failed = {}
    /\ at_fault = NoFault

\* try_dial_peer: Ok(conn) => break Ok(conn)
DialOk ==
    /\ pc = "dial"
    /\ dial_result' = "ok"
    /\ pc' = "open"
    /\ UNCHANGED <<cur, queue, rx_closed, senders_open, next_tag, events,
                   events_rx_alive, emitted, written, result, cancels,
                   open_result, write_result, flush_ret, snapshot, env_failed, at_fault>>
    /\ UNCHANGED <<fwdVars, storeVars, connVars, respVars, coreVars>>

\* try_dial_peer: Err(DialCancelled) treated like any other dial error
DialCancelledAsFailure ==
    /\ pc = "dial"
    /\ cancels < MaxCancels
    /\ cancels' = cancels + 1
    /\ dial_result' = "cancelled"
    /\ BeginFlush("PeerDialFailed")
    /\ UNCHANGED <<cur, queue, senders_open, next_tag, events,
                   events_rx_alive, emitted, written, result,
                   open_result, write_result, env_failed, at_fault>>
    /\ UNCHANGED <<fwdVars, storeVars, connVars, respVars, coreVars>>
\* try_dial_peer: Err(DialCancelled) => continue
DialCancelled ==
    /\ pc = "dial"
    /\ cancels < MaxCancels
    /\ cancels' = cancels + 1
    /\ dial_result' = "cancelled"
    /\ pc' = "dial"
    /\ UNCHANGED <<cur, queue, rx_closed, senders_open, next_tag, events,
                   events_rx_alive, emitted, written, result,
                   open_result, write_result, flush_ret, snapshot, env_failed, at_fault>>
    /\ UNCHANGED <<fwdVars, storeVars, connVars, respVars, coreVars>>

\* try_dial_peer: Err(err) => flush, break Err(PeerDialFailed)
DialErr ==
    /\ pc = "dial"
    /\ dial_result' = "failed"
    /\ BeginFlush("PeerDialFailed")
    /\ UNCHANGED <<cur, queue, senders_open, next_tag, events,
                   events_rx_alive, emitted, written, result, cancels,
                   open_result, write_result, env_failed>>
    /\ at_fault' = Fault
    /\ UNCHANGED <<fwdVars, storeVars, connVars, respVars, coreVars>>

\* try_open_substream: Ok(substream)
OpenOk ==
    /\ pc = "open"
    /\ open_result' = "ok"
    /\ pc' = "next"
    /\ UNCHANGED <<cur, queue, rx_closed, senders_open, next_tag, events,
                   events_rx_alive, emitted, written, result, cancels,
                   dial_result, write_result, flush_ret, snapshot, env_failed, at_fault>>
    /\ UNCHANGED <<fwdVars, storeVars, connVars, respVars, coreVars>>

\* try_open_substream: Err(err) returned without flushing the queue
OpenErrNoFlush ==
    /\ pc = "open"
    /\ open_result' = "failed"
    /\ pc' = "done"
    /\ result' = "SubstreamOpenFailed"
    /\ at_fault' = Fault
    /\ UNCHANGED <<cur, queue, rx_closed, senders_open, next_tag, events,
                   events_rx_alive, emitted, written, cancels,
                   dial_result, write_result, flush_ret, snapshot, env_failed>>
    /\ UNCHANGED <<fwdVars, storeVars, connVars, respVars, coreVars>>
\* try_open_substream: Err(err) => flush, Err(err.into())
OpenErr ==
    /\ pc = "open"
    /\ open_result' = "failed"
    /\ BeginFlush("SubstreamOpenFailed")
    /\ UNCHANGED <<cur, queue, senders_open, next_tag, events,
                   events_rx_alive, emitted, written, result, cancels,
                   dial_result, write_result, env_failed>>
    /\ at_fault' = Fault
    /\ UNCHANGED <<fwdVars, storeVars, connVars, respVars, coreVars>>

\* start_forwarding_messages: request_rx.next() yields Some(out_msg), then
\* to_envelope_bytes(&out_msg) (no await inside): Ok(body) or Err(err)
StreamRecv ==
    /\ pc = "next"
    /\ queue # <<>>
    /\ cur' = Pop(queue)[1]
    /\ queue' = Pop(queue)[2]
    /\ \E envelope_ok \in BOOLEAN :
         IF envelope_ok
           THEN pc' = "write" /\ env_failed' = env_failed
           ELSE pc' = "emit_failed" /\ env_failed' = env_failed \cup {cur'}
    /\ UNCHANGED <<rx_closed, senders_open, next_tag, events,
                   events_rx_alive, emitted, written, result, cancels,
                   dial_result, open_result, write_result, flush_ret, snapshot,
                   at_fault>>
    /\ UNCHANGED <<fwdVars, storeVars, connVars, respVars, coreVars>>

\* start_forwarding_messages: the closed and empty queue ends in an error
StreamEndAsFailure ==
    /\ pc = "next"
    /\ queue = <<>>
    /\ ~senders_open \/ rx_closed
    /\ pc' = "done"
    /\ result' = "OutboundSubstreamFailure"
    /\ UNCHANGED <<cur, queue, rx_closed, senders_open, next_tag, events,
                   events_rx_alive, emitted, written, cancels,
                   dial_result, open_result, write_result, flush_ret, snapshot,
                   env_failed, at_fault>>
    /\ UNCHANGED <<fwdVars, storeVars, connVars, respVars, coreVars>>
\* start_forwarding_messages: request_rx.next() yields None (every sender is
\* dropped and the buffer is empty): the loop ends, Ok(())
StreamEnd ==
    /\ pc = "next"
    /\ queue = <<>>
    /\ ~senders_open \/ rx_closed
    /\ pc' = "done"
    /\ result' = "Ok"
    /\ UNCHANGED <<cur, queue, rx_closed, senders_open, next_tag, events,
                   events_rx_alive, emitted, written, cancels,
                   dial_result, open_result, write_result, flush_ret, snapshot,
                   env_failed, at_fault>>
    /\ UNCHANGED <<fwdVars, storeVars, connVars, respVars, coreVars>>

\* framed.send(body) succeeded
WriteOk ==
    /\ pc = "write"
    /\ written' = Append(written, cur)
    /\ write_result' = "ok"
    /\ pc' = "emit_sent"
    /\ UNCHANGED <<cur, queue, rx_closed, senders_open, next_tag, events,
                   events_rx_alive, emitted, result, cancels,
                   dial_result, open_result, flush_ret, snapshot, env_failed, at_fault>>
    /\ UNCHANGED <<fwdVars, storeVars, connVars, respVars, coreVars>>

\* framed.send(body) failed, and the worker reports the message as sent
WriteErrAsSent ==
    /\ pc = "write"
    /\ write_result' = "failed"
    /\ pc' = "emit_sent"
    /\ UNCHANGED <<cur, queue, rx_closed, senders_open, next_tag, events,
                   events_rx_alive, emitted, written, result, cancels,
                   dial_result, open_result, flush_ret, snapshot, env_failed, at_fault>>
    /\ UNCHANGED <<fwdVars, storeVars, connVars, respVars, coreVars>>
\* framed.send(body) failed
WriteErr ==
    /\ pc = "write"
    /\ write_result' = "failed"
    /\ pc' = "emit_write_failed"
    /\ UNCHANGED <<cur, queue, rx_closed, senders_open, next_tag, events,
                   events_rx_alive, emitted, written, result, cancels,
                   dial_result, open_result, flush_ret, snapshot, env_failed>>
    /\ at_fault' = Fault
    /\ UNCHANGED <<fwdVars, storeVars, connVars, respVars, coreVars>>

\* messaging_events_tx.send(MessageSent(out_msg.tag)), back to the loop head
EmitSent ==
    /\ pc = "emit_sent"
    /\ Publish(MessageSent(cur))
    /\ pc' = "next"
    /\ UNCHANGED <<cur, queue, rx_closed, senders_open, next_tag,
                   events_rx_alive, written, result, cancels,
                   dial_result, open_result, write_result, flush_ret, snapshot,
                   env_failed, at_fault>>
    /\ UNCHANGED <<fwdVars, storeVars, connVars, respVars, coreVars>>

\* to_envelope_bytes failed, taken as fatal: send(SendMessageFailed(out_msg)),
\* then the flush
EmitEnvelopeFailedFatal ==
    /\ pc = "emit_failed"
    /\ Publish(SendMessageFailed(cur))
    /\ BeginFlush("OutboundSubstreamFailure")
    /\ UNCHANGED <<cur, queue, senders_open, next_tag,
                   events_rx_alive, written, result, cancels,
                   dial_result, open_result, write_result, env_failed, at_fault>>
    /\ UNCHANGED <<fwdVars, storeVars, connVars, respVars, coreVars>>
\* to_envelope_bytes failed: send(SendMessageFailed(out_msg)), back to the
\* loop head
EmitEnvelopeFailed ==
    /\ pc = "emit_failed"
    /\ Publish(SendMessageFailed(cur))
    /\ pc' = "next"
    /\ UNCHANGED <<cur, queue, rx_closed, senders_open, next_tag,
                   events_rx_alive, written, result, cancels,
                   dial_result, open_result, write_result, flush_ret, snapshot,
                   env_failed, at_fault>>
    /\ UNCHANGED <<fwdVars, storeVars, connVars, respVars, coreVars>>

\* the write failed: the queue is flushed, the failed message is forgotten
EmitWriteFailedSilent ==
    /\ pc = "emit_write_failed"
    /\ BeginFlush("OutboundSubstreamFailure")
    /\ UNCHANGED <<cur, queue, senders_open, next_tag, events, emitted,
                   events_rx_alive, written, result, cancels,
                   dial_result, open_result, write_result, env_failed, at_fault>>
    /\ UNCHANGED <<fwdVars, storeVars, connVars, respVars, coreVars>>
\* the write failed: send(SendMessageFailed(out_msg)), then the flush begins;
\* return Err(OutboundSubstreamFailure) follows it
EmitWriteFailed ==
    /\ pc = "emit_write_failed"
    /\ Publish(SendMessageFailed(cur))
    /\ BeginFlush("OutboundSubstreamFailure")
    /\ UNCHANGED <<cur, queue, senders_open, next_tag,
                   events_rx_alive, written, result, cancels,
                   dial_result, open_result, write_result, env_failed, at_fault>>
    /\ UNCHANGED <<fwdVars, storeVars, connVars, respVars, coreVars>>

\* flush loop: request_rx.next() yields Some(out_msg)
FlushRecv ==
    /\ pc = "flush"
    /\ queue # <<>>
    /\ cur' = Pop(queue)[1]
    /\ queue' = Pop(queue)[2]
    /\ pc' = "flush_emit"
    /\ UNCHANGED <<rx_closed, senders_open, next_tag, events,
                   events_rx_alive, emitted, written, result, cancels,
                   dial_result, open_result, write_result, flush_ret, snapshot,
                   env_failed, at_fault>>
    /\ UNCHANGED <<fwdVars, storeVars, connVars, respVars, coreVars>>

\* flush loop: the message is dropped without an event
FlushEmitSilent ==
    /\ pc = "flush_emit"
    /\ pc' = "flush"
    /\ UNCHANGED <<cur, queue, rx_closed, senders_open, next_tag, events,
                   emitted, events_rx_alive, written, result, cancels,
                   dial_result, open_result, write_result, flush_ret, snapshot,
                   env_failed, at_fault>>
    /\ UNCHANGED <<fwdVars, storeVars, connVars, respVars, coreVars>>
\* flush loop: send(SendMessageFailed(out_msg))
FlushEmit ==
    /\ pc = "flush_emit"
    /\ Publish(SendMessageFailed(cur))
    /\ pc' = "flush"
    /\ UNCHANGED <<cur, queue, rx_closed, senders_open, next_tag,
                   events_rx_alive, written, result, cancels,
                   dial_result, open_result, write_result, flush_ret, snapshot,
                   env_failed, at_fault>>
    /\ UNCHANGED <<fwdVars, storeVars, connVars, respVars, coreVars>>

\* flush loop over, and the caller returns Ok(()) instead of its error
FlushEndOk ==
    /\ pc = "flush"
    /\ queue = <<>>
    /\ pc' = "done"
    /\ result' = "Ok"
    /\ UNCHANGED <<cur, queue, rx_closed, senders_open, next_tag, events,
                   events_rx_alive, emitted, written, cancels,
                   dial_result, open_result, write_result, flush_ret, snapshot,
                   env_failed, at_fault>>
    /\ UNCHANGED <<fwdVars, storeVars, connVars, respVars, coreVars>>
\* flush loop: request_rx.next() yields None (closed and empty); the caller
\* returns its error
FlushEnd ==
    /\ pc = "flush"
    /\ queue = <<>>
    /\ pc' = "done"
    /\ result' = flush_ret
    /\ UNCHANGED <<cur, queue, rx_closed, senders_open, next_tag, events,
                   events_rx_alive, emitted, written, cancels,
                   dial_result, open_result, write_result, flush_ret, snapshot,
                   env_failed, at_fault>>
    /\ UNCHANGED <<fwdVars, storeVars, connVars, respVars, coreVars>>

\* ---- the other tasks
\* a producer's send is accepted whatever the state of the channel
EnqueueIgnoringClose ==
    /\ senders_open
    /\ next_tag <= MaxMsgs
    /\ queue' = Append(queue, next_tag)
    /\ next_tag' = next_tag + 1
    /\ UNCHANGED <<pc, cur, rx_closed, senders_open, events,
                   events_rx_alive, emitted, written, result, cancels,
                   dial_result, open_result, write_result, flush_ret, snapshot,
                   env_failed, at_fault>>
    /\ UNCHANGED <<fwdVars, storeVars, connVars, respVars, coreVars>>
\* a producer sends on request_rx's channel: accepted while the channel is
\* open (not closed by the receiver, receiver not dropped)
Enqueue ==
    /\ senders_open
    /\ ~rx_closed
    /\ pc # "done"
    /\ next_tag <= MaxMsgs
    /\ queue' = Append(queue, next_tag)
    /\ next_tag' = next_tag + 1
    /\ UNCHANGED <<pc, cur, rx_closed, senders_open, events,
                   events_rx_alive, emitted, written, result, cancels,
                   dial_result, open_result, write_result, flush_ret, snapshot,
                   env_failed, at_fault>>
    /\ UNCHANGED <<fwdVars, storeVars, connVars, respVars, coreVars>>

\* the last sender of request_rx's channel is dropped
ProducersClose ==
    /\ senders_open
    /\ senders_open' = FALSE
    /\ UNCHANGED <<pc, cur, queue, rx_closed, next_tag, events,
                   events_rx_alive, emitted, written, result, cancels,
                   dial_result, open_result, write_result, flush_ret, snapshot,
                   env_failed, at_fault>>
    /\ UNCHANGED <<fwdVars, storeVars, connVars, respVars, coreVars>>

\* the event subscriber receives one event
EventsRecv ==
    /\ events_rx_alive
    /\ events # <<>>
    /\ events' = Tail(events)
    /\ UNCHANGED <<pc, cur, queue, rx_closed, senders_open, next_tag,
                   events_rx_alive, emitted, written, result, cancels,
                   dial_result, open_result, write_result, flush_ret, snapshot,
                   env_failed, at_fault>>
    /\ UNCHANGED <<fwdVars, storeVars, connVars, respVars, coreVars>>

\* the event subscriber drops its receiver
EventsDrop ==
    /\ events_rx_alive
    /\ events_rx_alive' = FALSE
    /\ events' = <<>>
    /\ UNCHANGED <<pc, cur, queue, rx_closed, senders_open, next_tag,
                   emitted, written, result, cancels,
                   dial_result, open_result, write_result, flush_ret, snapshot,
                   env_failed, at_fault>>
    /\ UNCHANGED <<fwdVars, storeVars, connVars, respVars, coreVars>>

\* one step of the worker task
WorkerStep ==
    \/ DialOk \/ DialCancelled \/ DialErr
    \/ OpenOk \/ OpenErr
    \/ StreamRecv \/ StreamEnd
    \/ WriteOk \/ WriteErr
    \/ EmitSent \/ EmitEnvelopeFailed \/ EmitWriteFailed
    \/ FlushRecv \/ FlushEmit \/ FlushEnd


\* ------------------------------------------------------------------ Forwarder
Keys == 1..NumKeys
None == 0
\* the node id is derived from the public key
NodeIdOf(k) == k + NumKeys
NodeIds == {NodeIdOf(k) : k \in Keys}

\* NodeDestination: Unknown | PublicKey(pk) | NodeId(node_id)
Destinations ==
    {[kind |-> "Unknown", val |-> None]}
      \cup {[kind |-> "PublicKey", val |-> k] : k \in Keys}
      \cup {[kind |-> "NodeId", val |-> n] : n \in NodeIds}

\* NodeDestination::public_key(), NodeDestination::node_id()
DestPublicKey(d) == IF d.kind = "PublicKey" THEN d.val ELSE None
DestNodeId(d) == IF d.kind = "NodeId" THEN d.val ELSE None

\* DecryptedDhtMessage: source_peer, decryption_result, dht_header
\* (destination, message_type), authenticated_origin
Messages ==
    [decryption_failed : BOOLEAN,
     source_peer : {[public_key |-> k, node_id |-> NodeIdOf(k)] : k \in Keys},
     authenticated_origin : Keys \cup {None},
     dht_header : [destination : Destinations,
                   message_type : {"None", "Discovery"}],
     body : {"ciphertext"}]
NoMessage ==
    [decryption_failed |-> FALSE,
     source_peer |-> [public_key |-> 1, node_id |-> NodeIdOf(1)],
     authenticated_origin |-> None,
     dht_header |-> [destination |-> [kind |-> "Unknown", val |-> None],
                     message_type |-> "None"],
     body |-> "ciphertext"]

\* Forwarder::destination_matches_source with only the public key compared
destination_matches_source_pk_only(destination, source) ==
    DestPublicKey(destination) # None
      /\ DestPublicKey(destination) = source.public_key
\* Forwarder::destination_matches_source
destination_matches_source(destination, source) ==
    IF DestPublicKey(destination) # None
      THEN DestPublicKey(destination) = source.public_key
      ELSE IF DestNodeId(destination) # None
             THEN DestNodeId(destination) = source.node_id
             ELSE FALSE

\* excluded_peers of Forwarder::forward without the authenticated origin
ExcludedPeersSourceOnly(message) ==
    <<message.source_peer.public_key>>
\* excluded_peers of Forwarder::forward
ExcludedPeers(message) ==
    IF message.authenticated_origin # None
      THEN <<message.source_peer.public_key, message.authenticated_origin>>
      ELSE <<message.source_peer.public_key>>

\* the fallback of get_send_params with the message type ignored
NeighboursParamsNoClients(is_discovery, excluded_peers) ==
    [strategy |-> "Neighbours",
     target |-> None,
     excluded |-> excluded_peers]
\* the fallback of get_send_params: neighbours, with the clients for Discovery
NeighboursParams(is_discovery, excluded_peers) ==
    [strategy |-> IF is_discovery THEN "NeighboursIncludeClients"
                                  ELSE "Neighbours",
     target |-> None,
     excluded |-> excluded_peers]
DirectParams(pk) ==
    [strategy |-> "DirectPublicKey", target |-> pk, excluded |-> <<>>]

\* Forwarder::get_send_params without the peer manager lookups: a public key
\* destination is always sent to directly, a node id destination never
get_send_params_no_lookup(header, excluded_peers) ==
    LET is_discovery == header.message_type = "Discovery"
        dest == header.destination
    IN  CASE dest.kind = "Unknown" ->
               NeighboursParams(is_discovery, excluded_peers)
          [] dest.kind = "PublicKey" ->
               DirectParams(dest.val)
          [] dest.kind = "NodeId" ->
               NeighboursParams(is_discovery, excluded_peers)
\* Forwarder::get_send_params
get_send_params(header, excluded_peers) ==
    LET is_discovery == header.message_type = "Discovery"
        dest == header.destination
    IN  CASE dest.kind = "Unknown" ->
               NeighboursParams(is_discovery, excluded_peers)
          [] dest.kind = "PublicKey" ->
               IF dest.val \in peers
                 THEN DirectParams(dest.val)
                 ELSE NeighboursParams(is_discovery, excluded_peers)
          [] dest.kind = "NodeId" ->
               IF \E k \in peers : NodeIdOf(k) = dest.val
                 THEN DirectParams(CHOOSE k \in peers : NodeIdOf(k) = dest.val)
                 ELSE NeighboursParams(is_discovery, excluded_peers)

\* the request of Forwarder::forward: the params with the dht header, and
\* the body that failed to decrypt
ForwardRequest(message) ==
    [params |-> get_send_params(message.dht_header, ExcludedPeers(message)),
     dht_header |-> message.dht_header,
     body |-> message.body]

\* ---- the outbound dispatcher's resolution of a request
\* this node's own node id
SelfNodeId == 2 * NumKeys + 1

\* bitwise exclusive or of two naturals
RECURSIVE Xor(_, _)
Xor(a, b) ==
    IF a = 0 /\ b = 0 THEN 0
    ELSE (((a % 2) + (b % 2)) % 2) + 2 * Xor(a \div 2, b \div 2)

\* a distance that drops the lowest bit of the exclusive or
DistanceTruncated(a, b) == Xor(a, b) \div 2

\* NodeId::distance: the XOR metric; smaller is closer
Distance(a, b) == Xor(a, b)

\* the neighbours selection without the exclusions
RECURSIVE ClosestPeersIgnoringExclusions(_, _, _)
ClosestPeersIgnoringExclusions(known, k, excluded) ==
    IF k = 0 \/ known = {} THEN {}
    ELSE LET p == CHOOSE x \in known : \A y \in known :
                    Distance(NodeIdOf(x), SelfNodeId)
                      <= Distance(NodeIdOf(y), SelfNodeId)
         IN  {p} \cup ClosestPeersIgnoringExclusions(known \ {p}, k - 1, excluded)
\* the neighbours selection: the k known peers closest to this node that are
\* not excluded
RECURSIVE ClosestPeers(_, _, _)
ClosestPeers(known, k, excluded) ==
    LET cand == known \ excluded
    IN  IF k = 0 \/ cand = {} THEN {}
        ELSE LET p == CHOOSE x \in cand : \A y \in cand :
                        Distance(NodeIdOf(x), SelfNodeId)
                          <= Distance(NodeIdOf(y), SelfNodeId)
             IN  {p} \cup ClosestPeers(known \ {p}, k - 1, excluded)

\* the peers a request is delivered to: the target of a direct send, the
\* selected neighbours of a neighbours broadcast
DeliveryPlan(params) ==
    IF params.strategy = "DirectPublicKey"
      THEN {params.target}
      ELSE ClosestPeers(peers, num_neighbours, SeqRange(params.excluded))

FwdInit ==
    /\ fpc = "idle"
    /\ fmsg = NoMessage
    /\ outbound_calls = <<>>
    /\ next_calls = 0
    /\ fresult = "none"

\* ForwardMiddleware::call: a message arrives, Forwarder::handle starts
FwdCall ==
    /\ fpc = "idle"
    /\ \E m \in Messages : fmsg' = m
    /\ fpc' = "handle"
    /\ UNCHANGED <<peers, num_neighbours, outbound_calls, next_calls, fresult>>
    /\ UNCHANGED <<workerVars, storeVars, connVars, respVars, coreVars>>

\* Forwarder::handle with the decryption_failed() test left out
FwdHandleAlwaysForward ==
    /\ fpc = "handle"
    /\ IF ~destination_matches_source(fmsg.dht_header.destination,
                                      fmsg.source_peer)
         THEN /\ outbound_calls' = Append(outbound_calls, ForwardRequest(fmsg))
              /\ fpc' = "send"
         ELSE /\ outbound_calls' = outbound_calls
              /\ fpc' = "next"
    /\ UNCHANGED <<fmsg, peers, num_neighbours, next_calls, fresult>>
    /\ UNCHANGED <<workerVars, storeVars, connVars, respVars, coreVars>>
\* Forwarder::handle up to the await of send_raw: forward() is entered when
\* decryption failed; it returns Ok(()) at once when the destination is the
\* source peer, and otherwise hands its request to outbound_service.send_raw
FwdHandle ==
    /\ fpc = "handle"
    /\ IF fmsg.decryption_failed
           /\ ~destination_matches_source(fmsg.dht_header.destination,
                                          fmsg.source_peer)
         THEN /\ outbound_calls' = Append(outbound_calls, ForwardRequest(fmsg))
              /\ fpc' = "send"
         ELSE /\ outbound_calls' = outbound_calls
              /\ fpc' = "next"
    /\ UNCHANGED <<fmsg, peers, num_neighbours, next_calls, fresult>>
    /\ UNCHANGED <<workerVars, storeVars, connVars, respVars, coreVars>>

\* forward: outbound_service.send_raw(params, body) returned Ok
FwdSendOk ==
    /\ fpc = "send"
    /\ fpc' = "next"
    /\ UNCHANGED <<fmsg, peers, num_neighbours, outbound_calls, next_calls,
                   fresult>>
    /\ UNCHANGED <<workerVars, storeVars, connVars, respVars, coreVars>>

\* forward: send_raw returned Err; handle returns it (the ? of line 136)
FwdSendErr ==
    /\ fpc = "send"
    /\ fresult' = "Err"
    /\ fpc' = "done"
    /\ UNCHANGED <<fmsg, peers, num_neighbours, outbound_calls, next_calls>>
    /\ UNCHANGED <<workerVars, storeVars, connVars, respVars, coreVars>>

\* handle: next_service.oneshot(message), whose result handle returns
FwdNext ==
    /\ fpc = "next"
    /\ next_calls' = next_calls + 1
    /\ \E ok \in BOOLEAN : fresult' = IF ok THEN "Ok" ELSE "Err"
    /\ fpc' = "done"
    /\ UNCHANGED <<fmsg, peers, num_neighbours, outbound_calls>>
    /\ UNCHANGED <<workerVars, storeVars, connVars, respVars, coreVars>>

\* ---------------------------------------------------- StoreAndForwardDatabase
\* the text columns: NULL, and the hex text of a key or node id
Null == <<>>
to_hex(v) == <<v>>
\* the keys stored messages are addressed to, and their node ids
StoredKeys == {1, 2}
StoredNodeIds == {NodeIdOf(k) : k \in StoredKeys}
\* Option<DateTime<Utc>>::None for the since argument
NoSince == -1
Instants == 0..MaxTime

\* NewStoredMessage: the columns the caller of insert_message provides
NewStoredMessage(pk, node_id, origin, type, encrypted, priority) ==
    [destination_pubkey |-> pk,
     destination_node_id |-> node_id,
     origin_pubkey |-> origin,
     message_type |-> type,
     is_encrypted |-> encrypted,
     priority |-> priority]

\* the messages that are inserted: addressed to a key, to a node id (that of
\* key 2 or the farther one of key 3), to both or to nobody; those addressed to nobody with no origin, encrypted and of
\* type None, and with each one of the three otherwise; both priorities
NewStoredMessages ==
    {NewStoredMessage(to_hex(1), Null, Null, "None", TRUE, "Low"),
     NewStoredMessage(to_hex(2), Null, Null, "None", TRUE, "High"),
     NewStoredMessage(Null, to_hex(NodeIdOf(3)), Null, "None", TRUE, "Low"),
     NewStoredMessage(Null, to_hex(NodeIdOf(2)), Null, "None", TRUE, "High"),
     NewStoredMessage(to_hex(1), to_hex(NodeIdOf(2)), to_hex(1), "Discovery",
                      FALSE, "High"),
     NewStoredMessage(Null, Null, Null, "None", TRUE, "Low"),
     NewStoredMessage(Null, Null, to_hex(1), "None", TRUE, "Low"),
     NewStoredMessage(Null, Null, Null, "Discovery", TRUE, "Low"),
     NewStoredMessage(Null, Null, Null, "None", FALSE, "Low")}

\* StoredMessage: the row, with the id and the stored_at the storage assigns
StoredMessage(m, id, t) ==
    [id |-> id,
     stored_at |-> t,
     destination_pubkey |-> m.destination_pubkey,
     destination_node_id |-> m.destination_node_id,
     origin_pubkey |-> m.origin_pubkey,
     message_type |-> m.message_type,
     is_encrypted |-> m.is_encrypted,
     priority |-> m.priority]

Rows == SeqRange(store)

\* .filter(stored_at.ge(since)) when since is Some
StoredSince(r, since) == since # NoSince => r.stored_at >= since

\* the order of rows with equal stored_at is not determined by the query:
\* the storage engine settles it, the same way every time
TieOrders == {"ascending id", "descending id"}
TieBefore(a, b) ==
    IF tie_order = "ascending id" THEN a.id < b.id ELSE a.id > b.id

\* the rows with stored_at ascending, those of equal stored_at in an order
\* that may differ from one query to the next
OrderedByStoredAtAnyTies(rows) ==
    {p \in [1..Cardinality(rows) -> rows] :
       /\ \A i, j \in DOMAIN p : i # j => p[i] # p[j]
       /\ \A i, j \in DOMAIN p : i < j => p[i].stored_at <= p[j].stored_at}
OrderedByStoredAt(rows) ==
    {p \in [1..Cardinality(rows) -> rows] :
       /\ \A i, j \in 1..Cardinality(rows) : i # j => p[i] # p[j]
       /\ \A i, j \in 1..Cardinality(rows) :
            i < j => \/ p[i].stored_at < p[j].stored_at
                     \/ /\ p[i].stored_at = p[j].stored_at
                        /\ TieBefore(p[i], p[j])}

\* .limit(limit), for a limit that is not negative
Limit(p, limit) ==
    IF limit < Len(p) THEN SubSeq(p, 1, limit) ELSE p

\* .order_by(stored_at.asc()).limit(limit).get_results(conn)
GetResults(rows, limit) ==
    {Limit(p, limit) : p \in OrderedByStoredAt(rows)}

\* the filter of find_messages_for_peer without the node id alternative
for_peer_filter_pubkey_only(r, public_key, node_id, since) ==
    /\ r.destination_pubkey = to_hex(public_key)
    /\ StoredSince(r, since)
\* the filter of find_messages_for_peer
for_peer_filter(r, public_key, node_id, since) ==
    /\ \/ r.destination_pubkey = to_hex(public_key)
       \/ r.destination_node_id = to_hex(node_id)
    /\ StoredSince(r, since)

\* the filter of find_anonymous_messages without the destination_pubkey test
anonymous_filter_any_destination(r, since) ==
    /\ r.origin_pubkey = Null
    /\ r.is_encrypted
    /\ r.message_type = "None"
    /\ StoredSince(r, since)
\* the filter of find_anonymous_messages without the is_encrypted test
anonymous_filter_any_encryption(r, since) ==
    /\ r.origin_pubkey = Null
    /\ r.destination_pubkey = Null
    /\ r.message_type = "None"
    /\ StoredSince(r, since)
\* the filter of find_anonymous_messages
anonymous_filter(r, since) ==
    /\ r.origin_pubkey = Null
    /\ r.destination_pubkey = Null
    /\ r.is_encrypted
    /\ r.message_type = "None"
    /\ StoredSince(r, since)

\* NodeId::from_hex: the node id of a hex text, None when it is not one
from_hex(text) == IF Len(text) = 1 THEN text[1] ELSE None

\* Option<Box<NodeDistance>>::None for the dist_threshold argument
NoThreshold == -1

\* the storage-level filter of find_regional_messages without the
\* is_not_null test
regional_filter_nullable(r, node_id, since) ==
    /\ r.destination_node_id # to_hex(node_id)
    /\ r.message_type = "None"
    /\ StoredSince(r, since)
\* the storage-level filter of find_regional_messages
regional_filter(r, node_id, since) ==
    /\ r.destination_node_id # to_hex(node_id)
    /\ r.destination_node_id # Null
    /\ r.message_type = "None"
    /\ StoredSince(r, since)

\* the in-process filter of find_regional_messages with a strict comparison
within_threshold_strict(r, node_id, dist_threshold) ==
    IF r.destination_node_id # Null
      THEN LET dest_node_id == from_hex(r.destination_node_id)
           IN  IF dest_node_id # None
                 THEN \/ dest_node_id = node_id
                      \/ Distance(dest_node_id, node_id) < dist_threshold
                 ELSE FALSE
      ELSE TRUE
\* the in-process filter of find_regional_messages, applied to the rows the
\* storage returned when a distance threshold is given
within_threshold(r, node_id, dist_threshold) ==
    IF r.destination_node_id # Null
      THEN LET dest_node_id == from_hex(r.destination_node_id)
           IN  IF dest_node_id # None
                 THEN \/ dest_node_id = node_id
                      \/ Distance(dest_node_id, node_id) <= dist_threshold
                 ELSE FALSE
      ELSE TRUE

\* the filter of find_messages_of_type_for_pubkey without the NULL alternative
of_type_filter_pubkey_only(r, public_key, message_type, since) ==
    /\ r.destination_pubkey = to_hex(public_key)
    /\ r.message_type = message_type
    /\ StoredSince(r, since)
\* the filter of find_messages_of_type_for_pubkey
of_type_filter(r, public_key, message_type, since) ==
    /\ \/ r.destination_pubkey = to_hex(public_key)
       \/ r.destination_pubkey = Null
    /\ r.message_type = message_type
    /\ StoredSince(r, since)

\* the since and limit arguments the retrieval calls are made with: no since
\* or the current instant, a limit of one or above the store
Sinces == {NoSince, now}
Limits == {1, MaxStored + 1}
\* the distance thresholds find_regional_messages is called with: none, zero,
\* and the distance between the node ids of keys 1 and 2, which puts one
\* addressed node id at the threshold and the other one beyond it
Thresholds ==
    {NoThreshold, 0, Distance(NodeIdOf(1), NodeIdOf(2))}

\* a repository call and what it returned
Call(op, public_key, node_id, since, limit, rows, count) ==
    [op |-> op, public_key |-> public_key, node_id |-> node_id,
     since |-> since, limit |-> limit, result |-> rows, count |-> count,
     message_type |-> "None", dist_threshold |-> NoThreshold,
     priority |-> "Low", repeat |-> FALSE]
NoCall == Call("none", None, None, NoSince, 0, <<>>, 0)

StoreInit ==
    /\ store = <<>>
    /\ now = 0
    /\ next_id = 1
    /\ last = NoCall

\* the storage's clock advances
Tick ==
    /\ now < MaxTime
    /\ now' = now + 1
    /\ UNCHANGED <<store, next_id, last, tie_order>>
    /\ UNCHANGED <<workerVars, fwdVars, connVars, respVars, coreVars>>

\* the call before was delete_messages_with_priority_older_than with the
\* same arguments
SameDelete(priority, since) ==
    /\ last.op = "delete_messages_with_priority_older_than"
    /\ last.priority = priority
    /\ last.since = since

\* an insert that skips a message equal to a stored one
insert_message_unique ==
    /\ next_id <= MaxStored
    /\ \E m \in NewStoredMessages :
         store' = IF \E r \in Rows : r = StoredMessage(m, r.id, r.stored_at)
                    THEN store
                    ELSE Append(store, StoredMessage(m, next_id, now))
    /\ next_id' = next_id + 1
    /\ last' = Call("insert_message", None, None, NoSince, 0, <<>>, 0)
    /\ UNCHANGED <<now, tie_order>>
    /\ UNCHANGED <<workerVars, fwdVars, connVars, respVars, coreVars>>
\* StoreAndForwardDatabase::insert_message
insert_message ==
    /\ next_id <= MaxStored
    /\ \E m \in NewStoredMessages :
         store' = Append(store, StoredMessage(m, next_id, now))
    /\ next_id' = next_id + 1
    /\ last' = Call("insert_message", None, None, NoSince, 0, <<>>, 0)
    /\ UNCHANGED <<now, tie_order>>
    /\ UNCHANGED <<workerVars, fwdVars, connVars, respVars, coreVars>>

\* StoreAndForwardDatabase::find_messages_for_peer
find_messages_for_peer ==
    /\ \E public_key \in StoredKeys, node_id \in StoredNodeIds,
          since \in Sinces, limit \in Limits :
         \E res \in GetResults({r \in Rows : for_peer_filter(r, public_key,
                                                            node_id, since)},
                               limit) :
           last' = Call("find_messages_for_peer", public_key, node_id, since,
                        limit, res, 0)
    /\ UNCHANGED <<store, now, next_id, tie_order>>
    /\ UNCHANGED <<workerVars, fwdVars, connVars, respVars, coreVars>>

\* StoreAndForwardDatabase::find_anonymous_messages
find_anonymous_messages ==
    /\ \E since \in Sinces, limit \in Limits :
         \E res \in GetResults({r \in Rows : anonymous_filter(r, since)},
                               limit) :
           last' = Call("find_anonymous_messages", None, None, since, limit,
                        res, 0)
    /\ UNCHANGED <<store, now, next_id, tie_order>>
    /\ UNCHANGED <<workerVars, fwdVars, connVars, respVars, coreVars>>

\* find_regional_messages with the limit applied after the distance filter
find_regional_messages_limit_last ==
    /\ \E node_id \in StoredNodeIds, dist_threshold \in Thresholds,
          since \in Sinces, limit \in Limits :
         \E results \in GetResults({r \in Rows :
                                      /\ regional_filter(r, node_id, since)
                                      /\ dist_threshold # NoThreshold =>
                                           within_threshold(r, node_id,
                                                            dist_threshold)},
                                   limit) :
           last' = [Call("find_regional_messages", None, node_id, since,
                         limit, results, 0)
                      EXCEPT !.dist_threshold = dist_threshold]
    /\ UNCHANGED <<store, now, next_id, tie_order>>
    /\ UNCHANGED <<workerVars, fwdVars, connVars, respVars, coreVars>>
\* StoreAndForwardDatabase::find_regional_messages: the storage-level query
\* with its limit, then the distance filter on what it returned
find_regional_messages ==
    /\ \E node_id \in StoredNodeIds, dist_threshold \in Thresholds,
          since \in Sinces, limit \in Limits :
         \E results \in GetResults({r \in Rows :
                                      regional_filter(r, node_id, since)},
                                   limit) :
           last' = [Call("find_regional_messages", None, node_id, since,
                         limit,
                         IF dist_threshold # NoThreshold
                           THEN SelectSeq(results,
                                  LAMBDA r : within_threshold(r, node_id,
                                                              dist_threshold))
                           ELSE results,
                         0)
                      EXCEPT !.dist_threshold = dist_threshold]
    /\ UNCHANGED <<store, now, next_id, tie_order>>
    /\ UNCHANGED <<workerVars, fwdVars, connVars, respVars, coreVars>>

\* StoreAndForwardDatabase::find_messages_of_type_for_pubkey
find_messages_of_type_for_pubkey ==
    /\ \E public_key \in StoredKeys, message_type \in {"None", "Discovery"},
          since \in Sinces, limit \in Limits :
         \E res \in GetResults({r \in Rows :
                                  of_type_filter(r, public_key, message_type,
                                                 since)},
                               limit) :
           last' = [Call("find_messages_of_type_for_pubkey", public_key, None,
                         since, limit, res, 0)
                      EXCEPT !.message_type = message_type]
    /\ UNCHANGED <<store, now, next_id, tie_order>>
    /\ UNCHANGED <<workerVars, fwdVars, connVars, respVars, coreVars>>

\* the delete with the cutoff itself included
delete_messages_with_priority_not_newer_than ==
    /\ \E priority \in {"Low", "High"}, since \in 1..MaxTime :
         LET doomed(r) == r.stored_at <= since /\ r.priority = priority
         IN  /\ store' = SelectSeq(store, LAMBDA r : ~doomed(r))
             /\ last' = [Call("delete_messages_with_priority_older_than",
                               None, None, since, 0, <<>>,
                               Cardinality({r \in Rows : doomed(r)}))
                            EXCEPT !.priority = priority,
                                   !.repeat = SameDelete(priority, since)]
    /\ UNCHANGED <<now, next_id, tie_order>>
    /\ UNCHANGED <<workerVars, fwdVars, connVars, respVars, coreVars>>
\* StoreAndForwardDatabase::delete_messages_with_priority_older_than; the
\* record of the call notes whether the call before it was the same delete
delete_messages_with_priority_older_than ==
    /\ \E priority \in {"Low", "High"}, since \in 1..MaxTime :
         LET doomed(r) == r.stored_at < since /\ r.priority = priority
         IN  /\ store' = SelectSeq(store, LAMBDA r : ~doomed(r))
             /\ last' = [Call("delete_messages_with_priority_older_than",
                               None, None, since, 0, <<>>,
                               Cardinality({r \in Rows : doomed(r)}))
                            EXCEPT !.priority = priority,
                                   !.repeat = SameDelete(priority, since)]
    /\ UNCHANGED <<now, next_id, tie_order>>
    /\ UNCHANGED <<workerVars, fwdVars, connVars, respVars, coreVars>>

\* ------------------------------------------- concurrent use of the database
\* Each operation of StoreAndForwardDatabase hands one statement to
\* with_connection_async, which runs it on the shared connection; the
\* statements of concurrent tasks run one at a time, in any order.

\* no retrieval is under way
NoRetrieval ==
    [pc |-> "idle", public_key |-> None, node_id |-> None, since |-> NoSince,
     limit |-> 0, result |-> <<>>, seen |-> <<>>]

ConnInit == retrieval = NoRetrieval

\* the stored messages since the start of the retrieval under way, one entry
\* per state of the table
Seen(table) ==
    IF retrieval.pc = "idle" \/ table = store
      THEN retrieval
      ELSE [retrieval EXCEPT !.seen = Append(@, table)]

\* a statement that reads the rows present when the call started together
\* with those present now
ReadRowsTorn == SeqRange(retrieval.seen[1]) \cup Rows
\* the rows a statement reads: those of the table when it runs
ReadRows == Rows

\* a task calls find_messages_for_peer: the statement is handed to the
\* connection
RetrievalStart ==
    /\ retrieval.pc = "idle"
    /\ \E public_key \in StoredKeys, node_id \in StoredNodeIds,
          limit \in Limits :
         retrieval' = [pc |-> "called", public_key |-> public_key,
                       node_id |-> node_id, since |-> NoSince,
                       limit |-> limit, result |-> <<>>,
                       seen |-> <<store>>]
    /\ UNCHANGED <<storeVars, workerVars, fwdVars, respVars, coreVars>>

\* the connection runs the statement of find_messages_for_peer
RetrievalRun ==
    /\ retrieval.pc = "called"
    /\ \E res \in GetResults({r \in ReadRows :
                                for_peer_filter(r, retrieval.public_key,
                                                retrieval.node_id,
                                                retrieval.since)},
                             retrieval.limit) :
         retrieval' = [retrieval EXCEPT !.pc = "ran", !.result = res]
    /\ UNCHANGED <<storeVars, workerVars, fwdVars, respVars, coreVars>>

\* find_messages_for_peer returns the rows to its caller
RetrievalReturn ==
    /\ retrieval.pc = "ran"
    /\ retrieval' = NoRetrieval
    /\ UNCHANGED <<storeVars, workerVars, fwdVars, respVars, coreVars>>

\* the messages other tasks insert meanwhile: those addressed to a public key
ConcurrentMessages ==
    {m \in NewStoredMessages : m.destination_pubkey # Null}

\* the connection runs the statement of another task's insert_message
ConcurrentInsert ==
    /\ next_id <= MaxStored
    /\ \E m \in ConcurrentMessages :
         store' = Append(store, StoredMessage(m, next_id, now))
    /\ next_id' = next_id + 1
    /\ retrieval' = Seen(store')
    /\ UNCHANGED <<now, last, tie_order>>
    /\ UNCHANGED <<workerVars, fwdVars, respVars, coreVars>>

\* the connection runs the statement of another task's
\* delete_messages_with_priority_older_than
ConcurrentDelete ==
    /\ \E priority \in {"Low", "High"}, since \in 1..MaxTime :
         store' = SelectSeq(store, LAMBDA r : ~ ( /\ r.stored_at < since
                                                  /\ r.priority = priority ))
    /\ retrieval' = Seen(store')
    /\ UNCHANGED <<now, next_id, last, tie_order>>
    /\ UNCHANGED <<workerVars, fwdVars, respVars, coreVars>>

\* the storage's clock advances while tasks use the database
ConcurrentTick ==
    /\ now < MaxTime
    /\ now' = now + 1
    /\ UNCHANGED <<store, next_id, last, tie_order, retrieval>>
    /\ UNCHANGED <<workerVars, fwdVars, respVars, coreVars>>

\* ------------------------------------------------------ SendMessageResponse
\* Vec<MessageTag>: the tags of the queued messages
TagLists == UNION {[1..n -> 1..NumTags] : n \in 0..MaxTags}

\* SendMessageResponse
Queued(tags) == [kind |-> "Queued", tags |-> tags]
Failed == [kind |-> "Failed", tags |-> <<>>]
PendingDiscovery == [kind |-> "PendingDiscovery", tags |-> <<>>]

\* Option<Vec<MessageTag>>: Some(tags) and None; the value of a call that
\* has not returned, and of one that panicked
Some(tags) == [kind |-> "Some", tags |-> tags]
NoTags == [kind |-> "None", tags |-> <<>>]
Unresolved == [kind |-> "Unresolved", tags |-> <<>>]
Panicked == [kind |-> "panic", tags |-> <<>>]

\* the oneshot channel before anything was sent, and after its sender was
\* dropped without sending
Empty == [kind |-> "Empty", tags |-> <<>>]
Canceled == [kind |-> "Canceled", tags |-> <<>>]

\* what the discovery sends once it is over
Replies == {Queued(tags) : tags \in TagLists} \cup {Failed}

\* SendMessageResponse::queued_or_failed
queued_or_failed(r) ==
    CASE r.kind = "Queued" -> Some(r.tags)
      [] r.kind = "Failed" -> NoTags
      [] r.kind = "PendingDiscovery" -> Panicked

\* rx.await.ok()?.queued_or_failed() with a dropped sender taken as a reply
\* of no tags
await_reply_cancel_is_queued(channel) ==
    IF channel = Canceled THEN Some(<<>>) ELSE queued_or_failed(channel)
\* rx.await.ok()?.queued_or_failed(): Err(Canceled) of a dropped sender is
\* None
await_reply(channel) ==
    IF channel = Canceled THEN NoTags ELSE queued_or_failed(channel)

RespInit ==
    /\ response = Failed
    /\ reply_rx = Empty
    /\ resolve_pc = "called"
    /\ resolved = Unresolved

\* resolve_ok, up to its return or to the await of the receiver
resolve_ok ==
    /\ resolve_pc = "called"
    /\ IF response.kind = "PendingDiscovery"
         THEN /\ resolve_pc' = "awaiting"
              /\ resolved' = resolved
         ELSE /\ resolve_pc' = "done"
              /\ resolved' = IF response.kind = "Queued"
                               THEN Some(response.tags) ELSE NoTags
    /\ UNCHANGED <<response, reply_rx>>
    /\ UNCHANGED <<workerVars, fwdVars, storeVars, connVars, coreVars>>

\* resolve_ok, woken by the receiver
resolve_ok_woken ==
    /\ resolve_pc = "awaiting"
    /\ reply_rx # Empty
    /\ IF await_reply(reply_rx) = Panicked
         THEN resolve_pc' = "panicked" /\ resolved' = resolved
         ELSE resolve_pc' = "done" /\ resolved' = await_reply(reply_rx)
    /\ UNCHANGED <<response, reply_rx>>
    /\ UNCHANGED <<workerVars, fwdVars, storeVars, connVars, coreVars>>

\* the discovery is over and sends its outcome on the oneshot channel
DiscoveryReply ==
    /\ response.kind = "PendingDiscovery"
    /\ reply_rx = Empty
    /\ \E r \in Replies : reply_rx' = r
    /\ UNCHANGED <<response, resolve_pc, resolved>>
    /\ UNCHANGED <<workerVars, fwdVars, storeVars, connVars, coreVars>>

\* the discovery times out: the sender is dropped without a reply
DiscoveryDropped ==
    /\ response.kind = "PendingDiscovery"
    /\ reply_rx = Empty
    /\ reply_rx' = Canceled
    /\ UNCHANGED <<response, resolve_pc, resolved>>
    /\ UNCHANGED <<workerVars, fwdVars, storeVars, connVars, coreVars>>

\* ------------------------------------------------------------ NodeId::distance
\* every value of the fixed-length identifier
Identifiers == 0..(2^IdBits - 1)

NoMeasure == [a |-> -1, b |-> -1, d |-> -1]

DistInit == measured = NoMeasure

\* a.distance(&b) of two identifiers
distance ==
    /\ \E a, b \in Identifiers :
         measured' = [a |-> a, b |-> b, d |-> Distance(a, b)]
    /\ UNCHANGED <<commsVars, cmpVars, blockVars, syncVars>>

\* ------------------------------------------------------------ ChainStrengthComparer
Less == "Less"
Equal == "Equal"
Greater == "Greater"

\* Ord::cmp of two integers
cmp(x, y) == IF x < y THEN Less ELSE IF x > y THEN Greater ELSE Equal

\* the fields of a BlockHeader the comparers read; squared stands for
\* total_accumulated_difficulty_inclusive_squared()
BlockHeaders ==
    [squared : 0..MaxDifficulty,
     accumulated_monero_difficulty : 0..MaxDifficulty,
     accumulated_blake_difficulty : 0..MaxDifficulty,
     height : 0..MaxDifficulty]

AccumulatedDifficultySquaredComparer == [kind |-> "AccumulatedDifficultySquared"]
MoneroDifficultyComparer == [kind |-> "MoneroDifficulty"]
BlakeDifficultyComparer == [kind |-> "BlakeDifficulty"]
HeightComparer == [kind |-> "Height"]
ThenComparer(before, after) ==
    [kind |-> "Then", before |-> before, after |-> after]

\* the builder's target before the first comparer is added
NoComparer == [kind |-> "None"]

\* a ThenComparer whose second comparer overrides the first one
ThenComparer_compare_after_first(before_ordering, after_ordering) ==
    IF after_ordering = Equal THEN before_ordering ELSE after_ordering

\* ThenComparer::compare, given what its two comparers return
ThenComparer_compare(before_ordering, after_ordering) ==
    IF before_ordering = Equal THEN after_ordering ELSE before_ordering

\* compare() of a comparer c on the headers a and b
RECURSIVE compare(_, _, _)
compare(c, a, b) ==
    CASE c.kind = "AccumulatedDifficultySquared" ->
           IF a.squared < b.squared THEN Less ELSE Greater
      [] c.kind = "MoneroDifficulty" ->
           cmp(a.accumulated_monero_difficulty, b.accumulated_monero_difficulty)
      [] c.kind = "BlakeDifficulty" ->
           cmp(a.accumulated_blake_difficulty, b.accumulated_blake_difficulty)
      [] c.kind = "Height" -> cmp(a.height, b.height)
      [] c.kind = "Then" ->
           ThenComparer_compare(compare(c.before, a, b), compare(c.after, a, b))

\* the comparers whose compare() one compare() of c runs, in order: a
\* ThenComparer runs its second comparer in the Equal arm of its match only
RECURSIVE consulted(_, _, _)
consulted(c, a, b) ==
    IF c.kind = "Then"
      THEN consulted(c.before, a, b)
             \o (IF compare(c.before, a, b) = Equal
                   THEN consulted(c.after, a, b) ELSE <<>>)
      ELSE <<c>>

NotCompared == [kind |-> "none"]
ComparePanicked == [kind |-> "panic"]
Compared(a, b, ordering) ==
    [kind |-> "compared", a |-> a, b |-> b, ordering |-> ordering]

\* strongest_chain(): a new builder
CmpInit ==
    /\ target = NoComparer
    /\ chained = <<>>
    /\ compared = NotCompared

add_comparer_as_then(inner) ==
    /\ compared = NotCompared
    /\ Len(chained) < MaxComparers
    /\ target' = IF target = NoComparer THEN inner
                                         ELSE ThenComparer(target, inner)
    /\ chained' = Append(chained, inner)
    /\ UNCHANGED compared
    /\ UNCHANGED <<commsVars, distVars, blockVars, syncVars>>

by_accumulated_difficulty ==
    add_comparer_as_then(AccumulatedDifficultySquaredComparer)

by_monero_difficulty == add_comparer_as_then(MoneroDifficultyComparer)

by_blake_difficulty == add_comparer_as_then(BlakeDifficultyComparer)

by_height == add_comparer_as_then(HeightComparer)

\* build(), which unwraps the target, and one compare() of what it returns
build_compare ==
    /\ compared = NotCompared
    /\ IF target = NoComparer
         THEN compared' = ComparePanicked
         ELSE \E a, b \in BlockHeaders :
                compared' = Compared(a, b, compare(target, a, b))
    /\ UNCHANGED <<target, chained>>
    /\ UNCHANGED <<commsVars, distVars, blockVars, syncVars>>

\* ------------------------------------------------------------ handle_block
\* what blockchain_db.add_block returns: a BlockAddResult, or an error
BlockAddResults == {"Ok", "BlockExists", "OrphanBlock", "ChainReorg"}
AddBlockResults == BlockAddResults \cup {"Err"}

\* the BlockEvent built from the result of add_block, and whether the
\* event stream took it
BlockEvent(blk, add_result, sent) ==
    [kind |-> IF add_result \in BlockAddResults THEN "Verified" ELSE "Invalid",
     block |-> blk, result |-> add_result, sent |-> sent]

\* a propagation that includes orphan blocks
propagate_orphans(add_result) ==
    add_result \in {"Ok", "OrphanBlock", "ChainReorg"}

\* the propagate flag of handle_block
propagate(add_result) == add_result \in {"Ok", "ChainReorg"}

\* source_peer.map_or_else(|| vec![], |pk| vec![pk])
exclude_peers(source) == IF source = None THEN <<>> ELSE <<source>>

Returned(ret) ==
    [source_peer |-> source_peer, add_block_result |-> add_block_result,
     result |-> ret]

BlockInit ==
    /\ hb_pc = "idle"
    /\ hb_block = 0
    /\ source_peer = None
    /\ subscribed = TRUE
    /\ add_block_result = "none"
    /\ block_events = <<>>
    /\ propagations = <<>>
    /\ hb_results = <<>>

\* handle_block is called with the next block, and adds it to the database
HandleBlock ==
    /\ hb_pc = "idle"
    /\ hb_block < MaxBlocks
    /\ hb_block' = hb_block + 1
    /\ source_peer' \in {None} \cup Keys
    /\ subscribed' \in BOOLEAN
    /\ add_block_result' \in AddBlockResults
    /\ hb_pc' = "publish"
    /\ UNCHANGED <<block_events, propagations, hb_results>>
    /\ UNCHANGED <<commsVars, distVars, cmpVars, syncVars>>

\* a handler that goes on to the propagation when the event stream fails
PublishErrIgnored ==
    /\ hb_pc = "publish"
    /\ ~subscribed
    /\ block_events' =
         Append(block_events, BlockEvent(hb_block, add_block_result, FALSE))
    /\ IF propagate(add_block_result)
         THEN hb_pc' = "propagate" /\ hb_results' = hb_results
         ELSE /\ hb_pc' = "idle"
              /\ hb_results' = Append(hb_results, Returned("EventStreamError"))
    /\ UNCHANGED <<hb_block, source_peer, subscribed, add_block_result,
                   propagations>>
    /\ UNCHANGED <<commsVars, distVars, cmpVars, syncVars>>

\* event_publisher.send fails: handle_block returns EventStreamError
PublishErr ==
    /\ hb_pc = "publish"
    /\ ~subscribed
    /\ block_events' =
         Append(block_events, BlockEvent(hb_block, add_block_result, FALSE))
    /\ hb_pc' = "idle"
    /\ hb_results' = Append(hb_results, Returned("EventStreamError"))
    /\ UNCHANGED <<hb_block, source_peer, subscribed, add_block_result,
                   propagations>>
    /\ UNCHANGED <<commsVars, distVars, cmpVars, syncVars>>

\* event_publisher.send succeeds: handle_block goes on to the propagation,
\* or returns Ok(()) when the block is not propagated
PublishOk ==
    /\ hb_pc = "publish"
    /\ subscribed
    /\ block_events' =
         Append(block_events, BlockEvent(hb_block, add_block_result, TRUE))
    /\ IF propagate(add_block_result)
         THEN hb_pc' = "propagate" /\ hb_results' = hb_results
         ELSE /\ hb_pc' = "idle"
              /\ hb_results' = Append(hb_results, Returned("Ok"))
    /\ UNCHANGED <<hb_block, source_peer, subscribed, add_block_result,
                   propagations>>
    /\ UNCHANGED <<commsVars, distVars, cmpVars, syncVars>>

\* outbound_nci.propagate_block, which succeeds or returns an error that
\* handle_block returns
Propagate(ret) ==
    /\ hb_pc = "propagate"
    /\ propagations' =
         Append(propagations, [block |-> hb_block,
                               exclude_peers |-> exclude_peers(source_peer)])
    /\ hb_pc' = "idle"
    /\ hb_results' = Append(hb_results, Returned(ret))
    /\ UNCHANGED <<hb_block, source_peer, subscribed, add_block_result,
                   block_events>>
    /\ UNCHANGED <<commsVars, distVars, cmpVars, syncVars>>

PropagateOk == Propagate("Ok")

PropagateErr == Propagate("OutboundError")

\* ------------------------------------------------------------ synchronize_blocks
\* The blocks of the network's chain are numbered by height from 1 to the
\* tip; the number stands for the block's hash, and hash 0 for a hash no
\* block has (the prev_hash of block 1). The node's best chain holds the
\* blocks 1..linked of them, its orphan pool some of the others.
prev_hash(h) == h - 1

Configs ==
    [max_header_request_retry_attempts : 0..MaxRetries,
     max_block_request_retry_attempts : 0..MaxRetries]

Chains ==
    UNION {[best_block : {tip}, behind : BOOLEAN, linked : 0..tip,
            orphans : SUBSET (1..tip)] : tip \in 0..MaxHeight}

\* fetch_header_with_block_hash(h).is_ok()
InLocalChain(h) == h >= 1 /\ h <= chain.linked

\* fetch_orphan(h) is Ok
InOrphanPool(h) == h \in chain.orphans /\ ~InLocalChain(h)

NoBlock == [hash |-> 0, from |-> "none"]
Block(h, from) == [hash |-> h, from |-> from]

NoRequests == [header_fails |-> 0, blocks |-> [h \in 1..MaxHeight |-> 0]]

\* a download queue filled at the wrong end
push_back(q, h) == Append(q, h)

\* VecDeque::push_front
push_front(q, h) == <<h>> \o q

SyncIdle ==
    /\ sync_pc = "idle"
    /\ config = [max_header_request_retry_attempts |-> 0,
                 max_block_request_retry_attempts |-> 0]
    /\ chain = [best_block |-> 0, behind |-> FALSE, linked |-> 0,
                orphans |-> {}]
    /\ sync_block_hash = 0
    /\ block_hashes = <<>>
    /\ to_download = <<>>
    /\ attempts = 0
    /\ linked_to_chain = FALSE
    /\ block = NoBlock
    /\ added = <<>>
    /\ sync_result = "none"
    /\ requests = NoRequests

\* synchronize_blocks returns ret
SyncReturn(ret) ==
    /\ sync_pc' = "done"
    /\ sync_result' = ret

\* entry: the metadata is read; a network without a best block has nothing
\* to synchronize
SyncStart ==
    /\ sync_pc = "idle"
    /\ IF chain.best_block = 0
         THEN SyncReturn("BlocksSynchronized")
         ELSE sync_pc' = "walk" /\ sync_result' = sync_result
    /\ sync_block_hash' = chain.best_block
    /\ UNCHANGED <<config, chain, block_hashes, to_download, attempts,
                   linked_to_chain, block, added, requests>>
    /\ UNCHANGED <<commsVars, distVars, cmpVars, blockVars>>

\* entry: shared.db.get_metadata() fails
SyncStartErr ==
    /\ sync_pc = "idle"
    /\ SyncReturn("Err")
    /\ UNCHANGED <<config, chain, sync_block_hash, block_hashes, to_download,
                   attempts, linked_to_chain, block, added, requests>>
    /\ UNCHANGED <<commsVars, distVars, cmpVars, blockVars>>

\* the while loop is not entered: the local chain is not weaker than the
\* network's, the walk has not linked
WalkNotBehind ==
    /\ sync_pc = "walk"
    /\ ~chain.behind
    /\ SyncReturn("BlocksSynchronized")
    /\ UNCHANGED <<config, chain, sync_block_hash, block_hashes, to_download,
                   attempts, linked_to_chain, block, added, requests>>
    /\ UNCHANGED <<commsVars, distVars, cmpVars, blockVars>>

\* the hash is in the local best chain: the walk ends linked, and the for
\* loop starts
WalkLinked ==
    /\ sync_pc = "walk"
    /\ chain.behind
    /\ InLocalChain(sync_block_hash)
    /\ linked_to_chain' = TRUE
    /\ to_download' = block_hashes
    /\ sync_pc' = "download"
    /\ UNCHANGED <<config, chain, sync_block_hash, block_hashes, attempts,
                   block, added, sync_result, requests>>
    /\ UNCHANGED <<commsVars, distVars, cmpVars, blockVars>>

\* the hash is in the orphan pool: the walk goes on with the orphan's parent
WalkOrphan ==
    /\ sync_pc = "walk"
    /\ chain.behind
    /\ ~InLocalChain(sync_block_hash)
    /\ InOrphanPool(sync_block_hash)
    /\ block_hashes' = push_front(block_hashes, sync_block_hash)
    /\ sync_block_hash' = prev_hash(sync_block_hash)
    /\ UNCHANGED <<sync_pc, config, chain, to_download, attempts,
                   linked_to_chain, block, added, sync_result, requests>>
    /\ UNCHANGED <<commsVars, distVars, cmpVars, blockVars>>

\* the hash is missing and the peer answers with its header
HeaderOk ==
    /\ sync_pc = "walk"
    /\ chain.behind
    /\ ~InLocalChain(sync_block_hash)
    /\ ~InOrphanPool(sync_block_hash)
    /\ sync_block_hash >= 1
    /\ block_hashes' = push_front(block_hashes, sync_block_hash)
    /\ requests' = [requests EXCEPT !.header_fails = 0]
    /\ attempts' = 0
    /\ sync_block_hash' = prev_hash(sync_block_hash)
    /\ UNCHANGED <<sync_pc, config, chain, to_download, linked_to_chain,
                   block, added, sync_result>>
    /\ UNCHANGED <<commsVars, distVars, cmpVars, blockVars>>

\* the hash is missing and the peer answers with an error, with no header
\* or with another header
HeaderFail ==
    /\ sync_pc = "walk"
    /\ chain.behind
    /\ ~InLocalChain(sync_block_hash)
    /\ ~InOrphanPool(sync_block_hash)
    /\ block_hashes' = push_front(block_hashes, sync_block_hash)
    /\ requests' = [requests EXCEPT !.header_fails = @ + 1]
    /\ attempts' = attempts + 1
    /\ IF attempts' >= config.max_header_request_retry_attempts
         THEN SyncReturn("MaxRequestAttemptsReached")
         ELSE UNCHANGED <<sync_pc, sync_result>>
    /\ UNCHANGED <<config, chain, sync_block_hash, to_download,
                   linked_to_chain, block, added>>
    /\ UNCHANGED <<commsVars, distVars, cmpVars, blockVars>>

\* the for loop is over
ForEnd ==
    /\ sync_pc = "download"
    /\ to_download = <<>>
    /\ SyncReturn("BlocksSynchronized")
    /\ UNCHANGED <<config, chain, sync_block_hash, block_hashes, to_download,
                   attempts, linked_to_chain, block, added, requests>>
    /\ UNCHANGED <<commsVars, distVars, cmpVars, blockVars>>

\* the next hash of the queue is in the orphan pool
ForOrphan ==
    /\ sync_pc = "download"
    /\ to_download # <<>>
    /\ InOrphanPool(Head(to_download))
    /\ sync_block_hash' = Head(to_download)
    /\ to_download' = Tail(to_download)
    /\ block' = Block(Head(to_download), "orphan pool")
    /\ sync_pc' = "unwrap"
    /\ UNCHANGED <<config, chain, block_hashes, attempts, linked_to_chain,
                   added, sync_result, requests>>
    /\ UNCHANGED <<commsVars, distVars, cmpVars, blockVars>>

\* the next hash of the queue is not in the orphan pool: it is requested
ForMissing ==
    /\ sync_pc = "download"
    /\ to_download # <<>>
    /\ ~InOrphanPool(Head(to_download))
    /\ sync_block_hash' = Head(to_download)
    /\ to_download' = Tail(to_download)
    /\ block' = NoBlock
    /\ attempts' = 0
    /\ sync_pc' = "request"
    /\ UNCHANGED <<config, chain, block_hashes, linked_to_chain, added,
                   sync_result, requests>>
    /\ UNCHANGED <<commsVars, distVars, cmpVars, blockVars>>

\* the peer answers with the requested block: break, and the check after
\* the loop lets it pass since attempts is below the limit
BlockOk ==
    /\ sync_pc = "request"
    /\ attempts < config.max_block_request_retry_attempts
    /\ requests' = [requests EXCEPT !.blocks[sync_block_hash] = @ + 1]
    /\ block' = Block(sync_block_hash, "peer")
    /\ sync_pc' = "unwrap"
    /\ UNCHANGED <<config, chain, sync_block_hash, block_hashes, to_download,
                   attempts, linked_to_chain, added, sync_result>>
    /\ UNCHANGED <<commsVars, distVars, cmpVars, blockVars>>

\* the peer answers with an error, with no block or with another block
BlockFail ==
    /\ sync_pc = "request"
    /\ attempts < config.max_block_request_retry_attempts
    /\ requests' = [requests EXCEPT !.blocks[sync_block_hash] = @ + 1]
    /\ attempts' = attempts + 1
    /\ UNCHANGED <<sync_pc, config, chain, sync_block_hash, block_hashes,
                   to_download, linked_to_chain, block, added, sync_result>>
    /\ UNCHANGED <<commsVars, distVars, cmpVars, blockVars>>

\* a download loop that goes on to the unwrap when the attempts are used up
BlockLoopExitUnchecked ==
    /\ sync_pc = "request"
    /\ attempts >= config.max_block_request_retry_attempts
    /\ sync_pc' = "unwrap"
    /\ UNCHANGED <<config, chain, sync_block_hash, block_hashes, to_download,
                   attempts, linked_to_chain, block, added, sync_result,
                   requests>>
    /\ UNCHANGED <<commsVars, distVars, cmpVars, blockVars>>

\* the while loop ends with the attempts used up, and the check after it
\* returns
BlockLoopExit ==
    /\ sync_pc = "request"
    /\ attempts >= config.max_block_request_retry_attempts
    /\ SyncReturn("MaxRequestAttemptsReached")
    /\ UNCHANGED <<config, chain, sync_block_hash, block_hashes, to_download,
                   attempts, linked_to_chain, block, added, requests>>
    /\ UNCHANGED <<commsVars, distVars, cmpVars, blockVars>>

\* block.unwrap(), which panics on None, and add_block, whose result is
\* logged (Ok, InvalidBlock, ValidationError) or returned (any other error)
AddBlock(outcome) ==
    /\ sync_pc = "unwrap"
    /\ IF block = NoBlock
         THEN /\ SyncReturn("panic")
              /\ added' = added
         ELSE /\ added' = Append(added, block)
              /\ IF outcome = "Err"
                   THEN SyncReturn("Err")
                   ELSE sync_pc' = "download" /\ sync_result' = sync_result
    /\ UNCHANGED <<config, chain, sync_block_hash, block_hashes, to_download,
                   attempts, linked_to_chain, block, requests>>
    /\ UNCHANGED <<commsVars, distVars, cmpVars, blockVars>>

AddBlockLogged == AddBlock("Ok")

AddBlockErr == AddBlock("Err")

CoreInit == DistInit /\ CmpInit /\ BlockInit /\ SyncIdle

\* ------------------------------------------------------------ specifications
CommsInit ==
    /\ WorkerInit
    /\ FwdInit /\ peers = {} /\ num_neighbours = 1
    /\ StoreInit /\ tie_order = "ascending id"
    /\ ConnInit
    /\ RespInit

Init ==
    /\ CommsInit
    /\ CoreInit

Next ==
    \/ DialOk \/ DialCancelled \/ DialErr
    \/ OpenOk \/ OpenErr
    \/ StreamRecv \/ StreamEnd
    \/ WriteOk \/ WriteErr
    \/ EmitSent \/ EmitEnvelopeFailed \/ EmitWriteFailed
    \/ FlushRecv \/ FlushEmit \/ FlushEnd
    \/ Enqueue \/ ProducersClose
    \/ EventsRecv \/ EventsDrop

Spec == Init /\ [][Next]_vars

FwdSpecInit ==
    /\ WorkerInit
    /\ FwdInit
    /\ peers \in SUBSET Keys
    /\ num_neighbours \in 1..MaxNeighbours
    /\ StoreInit /\ tie_order = "ascending id"
    /\ ConnInit
    /\ RespInit
    /\ CoreInit

FwdSpecNext == FwdCall \/ FwdHandle \/ FwdSendOk \/ FwdSendErr \/ FwdNext

FwdSpec == FwdSpecInit /\ [][FwdSpecNext]_vars

StoreSpecNext ==
    \/ Tick
    \/ insert_message
    \/ find_messages_for_peer
    \/ find_anonymous_messages
    \/ delete_messages_with_priority_older_than

StoreSpecInit ==
    /\ WorkerInit
    /\ FwdInit /\ peers = {} /\ num_neighbours = 1
    /\ StoreInit /\ tie_order \in TieOrders
    /\ ConnInit
    /\ RespInit
    /\ CoreInit

StoreSpec == StoreSpecInit /\ [][StoreSpecNext]_vars

RegionalSpecNext ==
    \/ Tick
    \/ insert_message
    \/ find_regional_messages
    \/ delete_messages_with_priority_older_than

RegionalSpec == StoreSpecInit /\ [][RegionalSpecNext]_vars

OfTypeSpecNext ==
    \/ Tick
    \/ insert_message
    \/ find_messages_of_type_for_pubkey
    \/ delete_messages_with_priority_older_than

OfTypeSpec == StoreSpecInit /\ [][OfTypeSpecNext]_vars

RepositorySpecNext ==
    \/ Tick
    \/ insert_message
    \/ find_messages_for_peer
    \/ find_regional_messages
    \/ find_anonymous_messages
    \/ find_messages_of_type_for_pubkey
    \/ delete_messages_with_priority_older_than

RepositorySpec == StoreSpecInit /\ [][RepositorySpecNext]_vars

ConcurrentSpecNext ==
    \/ ConcurrentTick
    \/ ConcurrentInsert
    \/ ConcurrentDelete
    \/ RetrievalStart
    \/ RetrievalRun
    \/ RetrievalReturn

ConcurrentSpec == StoreSpecInit /\ [][ConcurrentSpecNext]_vars

RespSpecInit ==
    /\ WorkerInit
    /\ FwdInit /\ peers = {} /\ num_neighbours = 1
    /\ StoreInit /\ tie_order = "ascending id"
    /\ ConnInit
    /\ response \in {Queued(tags) : tags \in TagLists}
                      \cup {Failed, PendingDiscovery}
    /\ reply_rx = Empty
    /\ resolve_pc = "called"
    /\ resolved = Unresolved
    /\ CoreInit

RespSpecNext ==
    \/ resolve_ok
    \/ resolve_ok_woken
    \/ DiscoveryReply
    \/ DiscoveryDropped

\* resolve_ok is polled when it can run, and a discovery ends with a reply or
\* with its sender dropped
RespSpec == RespSpecInit /\ [][RespSpecNext]_vars /\ WF_vars(RespSpecNext)

DistSpecInit == CommsInit /\ CoreInit

DistSpec == DistSpecInit /\ [][distance]_vars

ComparerSpecNext ==
    \/ by_accumulated_difficulty
    \/ by_monero_difficulty
    \/ by_blake_difficulty
    \/ by_height
    \/ build_compare

ComparerSpec == Init /\ [][ComparerSpecNext]_vars

BlockSpecNext ==
    \/ HandleBlock
    \/ PublishOk
    \/ PublishErr
    \/ PropagateOk
    \/ PropagateErr

BlockSpec == Init /\ [][BlockSpecNext]_vars

SyncSpecInit ==
    /\ CommsInit
    /\ DistInit /\ CmpInit /\ BlockInit
    /\ sync_pc = "idle"
    /\ config \in Configs
    /\ chain \in Chains
    /\ sync_block_hash = 0
    /\ block_hashes = <<>>
    /\ to_download = <<>>
    /\ attempts = 0
    /\ linked_to_chain = FALSE
    /\ block = NoBlock
    /\ added = <<>>
    /\ sync_result = "none"
    /\ requests = NoRequests

SyncSpecNext ==
    \/ SyncStart \/ SyncStartErr
    \/ WalkNotBehind \/ WalkLinked \/ WalkOrphan
    \/ HeaderOk \/ HeaderFail
    \/ ForEnd \/ ForOrphan \/ ForMissing
    \/ BlockOk \/ BlockFail \/ BlockLoopExit
    \/ AddBlockLogged \/ AddBlockErr

SyncSpec == SyncSpecInit /\ [][SyncSpecNext]_vars

\* ================================================================= properties
FailedOnce(t) == CountEv(emitted, SendMessageFailed(t)) = 1
NeverSent(t) == CountEv(emitted, MessageSent(t)) = 0
\* the positions of the worker at which it publishes an event
EmitPcs == {"emit_sent", "emit_failed", "emit_write_failed", "flush_emit"}

\* C1: once dial_peer has returned an error other than DialCancelled, the
\* worker only flushes: nothing is ever written to the substream, no MessageSent is ever emitted, no message
\* is failed twice, and when the worker has ended it has returned
\* PeerDialFailed and has emitted exactly one SendMessageFailed for each
\* message that was queued when the dial failed (in queue order), and nothing
\* else.
C1_DialFailureFlushesQueue ==
    dial_result = "failed" =>
      /\ pc \in {"flush", "flush_emit", "done"}
      /\ written = <<>>
      /\ SentTags(emitted) = <<>>
      /\ \A t \in Tags : CountEv(emitted, SendMessageFailed(t)) <= 1
      /\ SeqRange(TagsOf(emitted)) \subseteq SeqRange(at_fault.queue)
      /\ pc = "done" =>
           /\ result = "PeerDialFailed"
           /\ TagsOf(emitted) = at_fault.queue

C1_Witness ==
    /\ pc = "done"
    /\ dial_result = "failed"
    /\ result = "PeerDialFailed"
    /\ Len(at_fault.queue) >= 2
    /\ Len(emitted) >= 2

\* C2: once framed.send has failed, the worker writes nothing more and emits
\* no further MessageSent; the failed message is not among the written
\* frames; and when the worker has ended it has returned
\* OutboundSubstreamFailure, its queue is empty, and after the failure it has
\* emitted exactly SendMessageFailed for the failed message followed by one
\* SendMessageFailed for each message of the queue (each message queued at
\* the failure among them, exactly once).
C2_WriteFailureIsFatal ==
    write_result = "failed" =>
      /\ written = at_fault.written
      /\ SentTags(emitted) = SentTags(at_fault.emitted)
      /\ at_fault.tag \notin SeqRange(written)
      /\ \A t \in Tags : CountEv(emitted, SendMessageFailed(t)) <= 1
      /\ pc = "done" =>
           /\ result = "OutboundSubstreamFailure"
           /\ queue = <<>>
           /\ TagsOf(SubSeq(emitted, Len(at_fault.emitted) + 1, Len(emitted)))
                = <<at_fault.tag>> \o snapshot
           /\ \A t \in {at_fault.tag} \cup SeqRange(at_fault.queue) :
                FailedOnce(t) /\ NeverSent(t)

C2_Witness ==
    /\ pc = "done"
    /\ write_result = "failed"
    /\ Len(at_fault.written) >= 1
    /\ Len(at_fault.queue) >= 1
    /\ FailedOnce(at_fault.tag)

\* C3: once open_substream has failed (after a successful dial), the worker
\* is never in Streaming, writes nothing and emits no MessageSent, and when it
\* has ended it has returned an error and has emitted exactly one
\* SendMessageFailed for each message queued when the negotiation failed.
C3_SubstreamFailureFlushesQueue ==
    open_result = "failed" =>
      /\ dial_result = "ok"
      /\ pc \in {"flush", "flush_emit", "done"}
      /\ written = <<>>
      /\ SentTags(emitted) = <<>>
      /\ \A t \in Tags : CountEv(emitted, SendMessageFailed(t)) <= 1
      /\ pc = "done" =>
           /\ result \notin {"Ok", "none"}
           /\ TagsOf(emitted) = at_fault.queue

C3_Witness ==
    /\ pc = "done"
    /\ open_result = "failed"
    /\ Len(at_fault.queue) >= 2
    /\ Len(emitted) = Len(at_fault.queue)

\* C4: while the worker dials it has emitted no event, has returned nothing
\* and has removed no message from its queue; a DialCancelled result leaves
\* the worker dialing, with its queue and its events unchanged; and the worker
\* leaves Dialing only with a connection (to the substream negotiation) or
\* with a dial error other than DialCancelled (to the flush of Failed).
C4_DialCancelledIsRetried ==
    /\ [](pc = "dial" =>
            /\ emitted = <<>>
            /\ result = "none"
            /\ ~rx_closed
            /\ dial_result \in {"none", "cancelled"}
            /\ Len(queue) = next_tag - 1)
    /\ [][cancels' # cancels =>
            /\ pc = "dial" /\ pc' = "dial"
            /\ dial_result' = "cancelled"
            /\ queue' = queue
            /\ emitted' = emitted]_vars
    /\ [][(pc = "dial" /\ pc' # "dial") =>
            \/ dial_result' = "ok" /\ pc' = "open"
            \/ dial_result' = "failed" /\ pc' = "flush"]_vars

C4_Witness ==
    /\ cancels = MaxCancels
    /\ pc = "open"
    /\ Len(queue) >= 1
    /\ emitted = <<>>

\* C5: the MessageSent events are exactly the written frames, in order, the
\* frame being written first (the last written frame has no event yet only
\* while the worker is about to publish it); a frame is written only after a
\* successful dial and a successful substream negotiation; a written message
\* is written once, gets at most one MessageSent and never a
\* SendMessageFailed.
C5_SentOnlyAfterWrite ==
    /\ TagsOf(SentTags(emitted)) =
         IF pc = "emit_sent" THEN SubSeq(written, 1, Len(written) - 1)
                             ELSE written
    /\ pc = "emit_sent" => written # <<>> /\ written[Len(written)] = cur
    /\ written # <<>> => dial_result = "ok" /\ open_result = "ok"
    /\ \A t \in SeqRange(written) :
         /\ CountEv(written, t) = 1
         /\ CountEv(emitted, MessageSent(t)) <= 1
         /\ CountEv(emitted, SendMessageFailed(t)) = 0

C5_Witness ==
    /\ pc = "next"
    /\ Len(written) >= 2
    /\ TagsOf(SentTags(emitted)) = written

\* C6: the producers enqueue tags in increasing order; the frames are written
\* in increasing order of tag, and so are the MessageSent events.
C6_FifoPerPeer ==
    /\ IsIncreasing(written)
    /\ IsIncreasing(TagsOf(SentTags(emitted)))

C6_Witness ==
    /\ Len(written) = MaxMsgs
    /\ Len(SentTags(emitted)) = MaxMsgs

\* C7: a streaming worker whose queue is empty and has no sender left can
\* step; a worker that has ended after streaming without a write error has
\* returned Ok, its producers had closed the queue, the queue is empty, every
\* enqueued message was written or failed to be signed, and the only
\* SendMessageFailed events are those of the messages that failed to be
\* signed.
C7_ClosedQueueEndsOk ==
    /\ (pc = "next" /\ queue = <<>> /\ ~senders_open) => ENABLED WorkerStep
    /\ (pc = "done" /\ open_result = "ok" /\ write_result # "failed") =>
         /\ result = "Ok"
         /\ ~senders_open
         /\ ~rx_closed
         /\ queue = <<>>
         /\ SeqRange(written) \cup env_failed = 1..(next_tag - 1)
         /\ SeqRange(TagsOf(FailedTags(emitted))) = env_failed

C7_Witness ==
    /\ pc = "done"
    /\ result = "Ok"
    /\ Len(written) >= 2
    /\ FailedTags(emitted) = <<>>

C10_SelfDestinationNotForwarded ==
    ( /\ fpc # "idle"
      /\ fmsg.decryption_failed
      /\ LET dest == fmsg.dht_header.destination
         IN  \/ dest.kind = "PublicKey" /\ dest.val = fmsg.source_peer.public_key
             \/ dest.kind = "NodeId" /\ dest.val = fmsg.source_peer.node_id )
    => (outbound_calls = <<>> /\ fpc # "send")

C10_Witness ==
    /\ fpc = "done"
    /\ fmsg.decryption_failed
    /\ fmsg.dht_header.destination.kind = "NodeId"
    /\ fmsg.dht_header.destination.val = fmsg.source_peer.node_id
    /\ next_calls = 1
    /\ outbound_calls = <<>>

\* the requests that reached send_raw, and the strategies that broadcast
Calls == {outbound_calls[i] : i \in DOMAIN outbound_calls}
NeighbourStrategies == {"Neighbours", "NeighboursIncludeClients"}
\* the message in hand is one that forward() sends on
IsForwarded(m) ==
    /\ m.decryption_failed
    /\ ~( \/ /\ m.dht_header.destination.kind = "PublicKey"
             /\ m.dht_header.destination.val = m.source_peer.public_key
          \/ /\ m.dht_header.destination.kind = "NodeId"
             /\ m.dht_header.destination.val = m.source_peer.node_id )

\* C11: when the handler has returned, the message has been passed to the
\* next service exactly once, whatever the outcome of forwarding.
C11_AlwaysPassedToNext ==
    fpc = "done" => next_calls = 1

\* C12: a message whose decryption succeeded never reaches send_raw: no
\* outbound request exists, the handler never waits for one, and the message
\* is passed to the next service exactly once (once the handler has returned)
\* and never more.
C12_DecryptedNeverForwarded ==
    (fpc # "idle" /\ ~fmsg.decryption_failed) =>
      /\ outbound_calls = <<>>
      /\ fpc # "send"
      /\ next_calls = IF fpc = "done" THEN 1 ELSE 0

C12_Witness ==
    /\ fpc = "done"
    /\ ~fmsg.decryption_failed
    /\ fmsg.dht_header.destination.kind = "PublicKey"
    /\ fmsg.dht_header.destination.val \in peers
    /\ next_calls = 1
    /\ outbound_calls = <<>>

\* C13: when the handler has returned for a message that failed to decrypt
\* and whose destination is not the source peer, exactly one outbound request
\* was made, carrying the message's DHT header and its undecrypted body
\* unchanged, and the message was then passed to the next service.
C13_ForwardedOnceThenPassedOn ==
    (fpc = "done" /\ IsForwarded(fmsg)) =>
      /\ Len(outbound_calls) = 1
      /\ outbound_calls[1].dht_header = fmsg.dht_header
      /\ outbound_calls[1].body = fmsg.body
      /\ next_calls = 1

\* C14: no outbound request of the forwarder is delivered to the source peer
\* or to the authenticated origin of the message.
C14_NeverBackToSourceOrOrigin ==
    \A req \in Calls :
      LET plan == DeliveryPlan(req.params)
      IN  /\ fmsg.source_peer.public_key \notin plan
          /\ fmsg.authenticated_origin # None
               => fmsg.authenticated_origin \notin plan

\* C15: a neighbours broadcast of the forwarder excludes exactly the source
\* peer's public key, and the authenticated origin's when there is one.
C15_ExcludedIsSourceAndOrigin ==
    \A req \in Calls :
      req.params.strategy \in NeighbourStrategies =>
        SeqRange(req.params.excluded) =
          {fmsg.source_peer.public_key}
            \cup (IF fmsg.authenticated_origin # None
                    THEN {fmsg.authenticated_origin} ELSE {})

C15_Witness ==
    /\ fpc = "done"
    /\ Len(outbound_calls) = 1
    /\ outbound_calls[1].params.strategy = "Neighbours"
    /\ fmsg.authenticated_origin # None
    /\ fmsg.authenticated_origin # fmsg.source_peer.public_key
    /\ Len(outbound_calls[1].params.excluded) = 2

\* C16: a request is a direct send exactly when the destination is a public
\* key in the peer directory (the target is that key) or a node id of a peer
\* in the directory (the target is that peer's public key); every other
\* request is a neighbours broadcast without a target.
C16_DirectIffDestinationKnown ==
    \A req \in Calls :
      LET dest == fmsg.dht_header.destination
          byKey == dest.kind = "PublicKey" /\ dest.val \in peers
          byNodeId == dest.kind = "NodeId"
                        /\ \E k \in peers : NodeIdOf(k) = dest.val
      IN  /\ req.params.strategy = "DirectPublicKey" <=> (byKey \/ byNodeId)
          /\ byKey => req.params.target = dest.val
          /\ byNodeId => /\ req.params.target \in peers
                         /\ NodeIdOf(req.params.target) = dest.val
          /\ ~(byKey \/ byNodeId) =>
               /\ req.params.strategy \in NeighbourStrategies
               /\ req.params.target = None

C16_Witness ==
    /\ fpc = "done"
    /\ Len(outbound_calls) = 1
    /\ fmsg.dht_header.destination.kind = "NodeId"
    /\ outbound_calls[1].params.strategy = "DirectPublicKey"
    /\ NodeIdOf(outbound_calls[1].params.target)
         = fmsg.dht_header.destination.val

\* C17: a neighbours broadcast includes the clients exactly when the message
\* type is Discovery, and the message type never changes whether a message is
\* sent directly or broadcast.
C17_ClientsIffDiscovery ==
    /\ \A req \in Calls :
         req.params.strategy \in NeighbourStrategies =>
           (req.params.strategy = "NeighboursIncludeClients"
              <=> fmsg.dht_header.message_type = "Discovery")
    /\ fpc # "idle" =>
         LET asType(t) == get_send_params(
                            [fmsg.dht_header EXCEPT !.message_type = t],
                            ExcludedPeers(fmsg))
         IN  /\ asType("None").strategy = "DirectPublicKey"
                  <=> asType("Discovery").strategy = "DirectPublicKey"
             /\ asType("None").target = asType("Discovery").target

C17_Witness ==
    /\ fpc = "done"
    /\ Len(outbound_calls) = 1
    /\ fmsg.dht_header.message_type = "Discovery"
    /\ fmsg.dht_header.destination.kind = "PublicKey"
    /\ fmsg.dht_header.destination.val \notin peers
    /\ outbound_calls[1].params.strategy = "NeighboursIncludeClients"

\* C18: for every exclusion set E, the neighbours selection with neighbour
\* count K is a set of min(K, number of known peers not in E) known peers
\* not in E, each closer to this node than every known peer not in E that was
\* left out; a broadcast of the forwarder is delivered to that selection for
\* its own exclusions.
C18_ClosestNonExcluded ==
    /\ \A E \in SUBSET Keys :
         LET cand == peers \ E
             plan == ClosestPeers(peers, num_neighbours, E)
             d(k) == Distance(NodeIdOf(k), SelfNodeId)
         IN  /\ plan \subseteq cand
             /\ Cardinality(plan) = IF num_neighbours < Cardinality(cand)
                                      THEN num_neighbours
                                      ELSE Cardinality(cand)
             /\ \A p \in plan : \A q \in cand \ plan : d(p) < d(q)
    /\ \A req \in Calls :
         req.params.strategy \in NeighbourStrategies =>
           DeliveryPlan(req.params)
             = ClosestPeers(peers, num_neighbours, SeqRange(ExcludedPeers(fmsg)))

C18_Witness ==
    /\ fpc = "done"
    /\ Len(outbound_calls) = 1
    /\ fmsg.dht_header.destination.kind = "Unknown"
    /\ fmsg.source_peer.public_key \in ClosestPeers(peers, num_neighbours, {})
    /\ fmsg.source_peer.public_key \notin DeliveryPlan(outbound_calls[1].params)
    /\ Cardinality(DeliveryPlan(outbound_calls[1].params)) = num_neighbours
    /\ Cardinality(peers \ SeqRange(outbound_calls[1].params.excluded))
         > num_neighbours

\* res is an expected result of find_for_peer(K, N, since, limit): rows
\* addressed to K or to N, stored at or after since, none twice, with
\* stored_at ascending, as many as the limit allows, and none newer than a
\* matching row that was left out
ForPeerExpected(res, K, N, since, limit) ==
    LET matching ==
          {r \in Rows :
             /\ r.destination_pubkey = to_hex(K)
                  \/ r.destination_node_id = to_hex(N)
             /\ since = NoSince \/ r.stored_at >= since}
    IN  /\ SeqRange(res) \subseteq matching
        /\ \A i, j \in DOMAIN res : i # j => res[i] # res[j]
        /\ Len(res) = IF limit < Cardinality(matching)
                        THEN limit ELSE Cardinality(matching)
        /\ \A i, j \in DOMAIN res :
             i < j => res[i].stored_at <= res[j].stored_at
        /\ \A r \in matching \ SeqRange(res) :
             \A i \in DOMAIN res : res[i].stored_at <= r.stored_at

\* C19: find_for_peer(K, N, since, limit) returns exactly the stored
\* messages addressed to the public key K or to the node id N, stored at or
\* after since when since is given (at since included), oldest first, cut to
\* the limit oldest.
C19_FindForPeer ==
    last.op = "find_messages_for_peer" =>
      ForPeerExpected(last.result, last.public_key, last.node_id,
                      last.since, last.limit)

C19_Witness ==
    /\ last.op = "find_messages_for_peer"
    /\ last.since # NoSince
    /\ last.limit = 1
    /\ Len(last.result) = 1
    /\ last.result[1].stored_at = last.since
    /\ last.result[1].destination_pubkey # to_hex(last.public_key)
    /\ last.result[1].destination_node_id = to_hex(last.node_id)
    /\ \E r \in Rows :
         /\ r # last.result[1]
         /\ r.destination_pubkey = to_hex(last.public_key)
         /\ r.stored_at >= last.since

\* C20: a stored message addressed to the public key K (inserted and not
\* deleted) is returned by find_for_peer(K, any node id, no since, a limit
\* above the size of the store), and no message with a destination public key
\* is ever returned by find_anonymous, whatever its other columns are.
C20_RoundTrip ==
    /\ ( /\ last.op = "find_messages_for_peer"
         /\ last.since = NoSince
         /\ last.limit > Len(store) ) =>
         \A r \in Rows :
           r.destination_pubkey = to_hex(last.public_key)
             => r \in SeqRange(last.result)
    /\ last.op = "find_anonymous_messages" =>
         \A r \in Rows :
           r.destination_pubkey # Null => r \notin SeqRange(last.result)

C20_Witness ==
    /\ last.op = "find_anonymous_messages"
    /\ Len(last.result) = 1
    /\ Len(store) = 2
    /\ \E r \in Rows :
         /\ r.destination_pubkey # Null
         /\ r.origin_pubkey = Null
         /\ r.is_encrypted
         /\ r.message_type = "None"
         /\ r \notin SeqRange(last.result)


\* the node id a returned row is addressed to
dest_node_id_of(r) == from_hex(r.destination_node_id)

\* C21: find_regional with a distance threshold returns no message whose
\* destination node id is farther from the querying node id than the
\* threshold, and (when the limit does not cut the result) returns every
\* stored message of type none, stored at or after since, whose destination
\* node id is exactly the querying node id.
C21_ThresholdKeepsOwnNodeId ==
    (last.op = "find_regional_messages" /\ last.dist_threshold # NoThreshold)
      => /\ \A i \in DOMAIN last.result :
              Distance(dest_node_id_of(last.result[i]), last.node_id)
                <= last.dist_threshold
         /\ last.limit > Len(store) =>
              \A r \in Rows :
                ( /\ r.destination_node_id = to_hex(last.node_id)
                  /\ r.message_type = "None"
                  /\ StoredSince(r, last.since) )
                  => r \in SeqRange(last.result)

\* the stored messages find_regional(N, threshold, since, _) selects
RegionalMatching(N, threshold, since) ==
    {r \in Rows :
       /\ r.destination_node_id # Null
       /\ dest_node_id_of(r) # N
       /\ r.message_type = "None"
       /\ since = NoSince \/ r.stored_at >= since
       /\ threshold = NoThreshold \/ Distance(dest_node_id_of(r), N) <= threshold}

\* C22: every message find_regional(N, threshold, since, limit) returns has
\* a destination node id that is not null and not N, has type none, was
\* stored at or after since and, with a threshold, lies at a distance of at
\* most the threshold from N; a message at exactly the threshold is kept:
\* when the limit does not cut the result, every such message is returned.
C22_FindRegional ==
    last.op = "find_regional_messages" =>
      /\ SeqRange(last.result)
           \subseteq RegionalMatching(last.node_id, last.dist_threshold,
                                      last.since)
      /\ Len(last.result) <= last.limit
      /\ \A i, j \in DOMAIN last.result :
           i < j => /\ last.result[i] # last.result[j]
                    /\ last.result[i].stored_at <= last.result[j].stored_at
      /\ last.limit > Len(store) =>
           SeqRange(last.result)
             = RegionalMatching(last.node_id, last.dist_threshold, last.since)

C22_Witness ==
    /\ last.op = "find_regional_messages"
    /\ last.dist_threshold # NoThreshold
    /\ \E i \in DOMAIN last.result :
         Distance(dest_node_id_of(last.result[i]), last.node_id)
           = last.dist_threshold
    /\ Len(store) > Len(last.result)


\* res lists the limit oldest rows of matching: rows of matching, none
\* twice, stored_at ascending, as many as the limit allows, and none newer
\* than a row of matching that was left out
OldestFirst(res, matching, limit) ==
    /\ SeqRange(res) \subseteq matching
    /\ \A i, j \in DOMAIN res : i # j => res[i] # res[j]
    /\ Len(res) = IF limit < Cardinality(matching)
                    THEN limit ELSE Cardinality(matching)
    /\ \A i, j \in DOMAIN res :
         i < j => res[i].stored_at <= res[j].stored_at
    /\ \A r \in matching \ SeqRange(res) :
         \A i \in DOMAIN res : res[i].stored_at <= r.stored_at

\* C23: find_anonymous(since, limit) returns exactly the stored messages
\* with a null origin public key, a null destination public key,
\* encrypted = true and type none that were stored at or after since, oldest
\* first, at most limit of them.
C23_FindAnonymous ==
    last.op = "find_anonymous_messages" =>
      OldestFirst(last.result,
                  {r \in Rows :
                     /\ r.origin_pubkey = Null
                     /\ r.destination_pubkey = Null
                     /\ r.is_encrypted = TRUE
                     /\ r.message_type = "None"
                     /\ last.since = NoSince \/ r.stored_at >= last.since},
                  last.limit)

C23_Witness ==
    /\ last.op = "find_anonymous_messages"
    /\ last.since # NoSince
    /\ Len(last.result) = 1
    /\ last.result[1].destination_node_id = Null
    /\ \E r \in Rows :
         /\ r.stored_at >= last.since
         /\ r.origin_pubkey = Null
         /\ r.destination_pubkey = Null
         /\ r.message_type = "None"
         /\ ~r.is_encrypted


\* a row with no destination public key, no destination node id and
\* encrypted = true
Unaddressed(r) ==
    /\ r.destination_pubkey = Null
    /\ r.destination_node_id = Null
    /\ r.is_encrypted

\* C24 as stated: a row with a null destination public key, a null
\* destination node id and encrypted = true is never returned by
\* find_for_peer, find_regional or find_by_type_for_key.
C24_UnaddressedNeverReturned ==
    last.op \in {"find_messages_for_peer", "find_regional_messages",
                 "find_messages_of_type_for_pubkey"}
      => \A i \in DOMAIN last.result : ~Unaddressed(last.result[i])

\* C24: a row with a null destination public key, a null destination node
\* id and encrypted = true is never returned by find_for_peer or
\* find_regional, whatever the arguments; find_by_type_for_key returns it
\* when its type is the type asked for (every such row stored at or after
\* since, when the limit does not cut the result).
C24_UnaddressedOnlyByType ==
    /\ last.op \in {"find_messages_for_peer", "find_regional_messages"}
         => \A i \in DOMAIN last.result : ~Unaddressed(last.result[i])
    /\ ( /\ last.op = "find_messages_of_type_for_pubkey"
         /\ last.limit > Len(store) )
         => \A r \in Rows :
              ( /\ Unaddressed(r)
                /\ r.message_type = last.message_type
                /\ last.since = NoSince \/ r.stored_at >= last.since )
                => r \in SeqRange(last.result)

C24_Witness ==
    /\ last.op = "find_messages_of_type_for_pubkey"
    /\ Len(last.result) = 2
    /\ Unaddressed(last.result[1])
    /\ last.result[2].destination_pubkey = to_hex(last.public_key)


C26_DeleteOlderThan ==
    [][ ( /\ last'.op = "delete_messages_with_priority_older_than"
          /\ last' # last )
          => LET removed == {r \in Rows : /\ r.priority = last'.priority
                                          /\ r.stored_at < last'.since}
             IN  /\ store' = SelectSeq(store, LAMBDA r : r \notin removed)
                 /\ last'.count = Cardinality(removed)
                 /\ \A r \in Rows :
                      ( \/ r.priority # last'.priority
                        \/ r.stored_at >= last'.since )
                        => \E i \in DOMAIN store' : store'[i] = r ]_vars

C26_Witness ==
    /\ last.op = "delete_messages_with_priority_older_than"
    /\ last.count = 1
    /\ Len(store) = 1
    /\ store[1].priority = last.priority
    /\ store[1].stored_at = last.since

\* C27: an insert adds exactly one stored message after the existing ones
\* and changes none of them, also when an equal message is already stored;
\* no operation changes a message that stays in the store.
C27_AppendOnly ==
    [][ /\ next_id' # next_id =>
             /\ Len(store') = Len(store) + 1
             /\ SubSeq(store', 1, Len(store)) = store
        /\ \A i \in DOMAIN store, j \in DOMAIN store' :
             store'[j].id = store[i].id => store'[j] = store[i] ]_vars

C27_Witness ==
    /\ Len(store) = 2
    /\ store[1].id # store[2].id
    /\ store[2] = [store[1] EXCEPT !.id = store[2].id]
    /\ last.op # "insert_message"

\* the retrieval operations
Retrievals ==
    {"find_messages_for_peer", "find_regional_messages",
     "find_anonymous_messages", "find_messages_of_type_for_pubkey"}

\* C28: a retrieval leaves the stored messages unchanged and, called again
\* with the same arguments with no write in between, returns the same
\* result; a delete_older_than called again with the same arguments removes
\* nothing, returns 0 and leaves the store unchanged.
C28_Idempotent ==
    [][ /\ ( /\ last'.op \in Retrievals
             /\ last' # last )
             => /\ store' = store
                /\ [last' EXCEPT !.result = <<>>]
                     = [last EXCEPT !.result = <<>>]
                     => last'.result = last.result
        /\ ( /\ last'.op = "delete_messages_with_priority_older_than"
             /\ last.op = "delete_messages_with_priority_older_than"
             /\ last'.priority = last.priority
             /\ last'.since = last.since
             /\ now' = now /\ next_id' = next_id )
             => /\ last'.count = 0
                /\ store' = store ]_vars

C28_Witness ==
    /\ last.op = "delete_messages_with_priority_older_than"
    /\ last.repeat
    /\ last.count = 0
    /\ Len(store) = 1
    /\ next_id = 3
    /\ store[1].priority = last.priority


C30_ResolveOk ==
    /\ [](resolve_pc = "done" =>
            resolved = CASE response.kind = "Queued" -> Some(response.tags)
                         [] response.kind = "Failed" -> NoTags
                         [] response.kind = "PendingDiscovery" ->
                              IF reply_rx.kind = "Queued"
                                THEN Some(reply_rx.tags)
                                ELSE NoTags)
    /\ [](resolve_pc # "panicked")
    /\ [](response.kind # "PendingDiscovery"
            => resolve_pc \in {"called", "done"})
    /\ [](resolve_pc = "done" /\ response.kind = "PendingDiscovery"
            => reply_rx # Empty)
    /\ <>(resolve_pc = "done")

C30_Witness ==
    /\ resolve_pc = "done"
    /\ response.kind = "PendingDiscovery"
    /\ reply_rx = Canceled
    /\ resolved = NoTags


\* C32: whatever the interleaving of producers and worker, when the worker
\* has terminated and the event channel still has its receiver, every
\* message that was accepted into the queue has exactly one outcome event,
\* MessageSent or SendMessageFailed; and from the moment the worker closed
\* its queue no further message is accepted.
C32_OneOutcomePerMessage ==
    /\ [](pc = "done" /\ events_rx_alive =>
            /\ queue = <<>>
            /\ \A t \in 1..(next_tag - 1) :
                 CountEv(emitted, MessageSent(t))
                   + CountEv(emitted, SendMessageFailed(t)) = 1)
    /\ [][rx_closed => next_tag' = next_tag /\ Len(queue') <= Len(queue)]_vars

C32_Witness ==
    /\ pc = "done"
    /\ events_rx_alive
    /\ next_tag - 1 = MaxMsgs
    /\ rx_closed
    /\ senders_open
    /\ \E t \in Tags : CountEv(emitted, MessageSent(t)) = 1
    /\ Cardinality({t \in Tags : CountEv(emitted, SendMessageFailed(t)) = 1})
         >= 2

\* C33: a message whose envelope could not be built is never written and
\* never reported sent, has exactly one SendMessageFailed once the worker is
\* past that emission, and the step that emits it leaves the queue open and
\* returns to the head of the streaming loop; a worker that entered
\* Streaming ends with an error only after a write failed.
C33_EnvelopeFailureNotFatal ==
    /\ [](\A t \in env_failed :
            /\ t \notin SeqRange(written)
            /\ CountEv(emitted, MessageSent(t)) = 0
            /\ CountEv(emitted, SendMessageFailed(t))
                 = IF pc = "emit_failed" /\ cur = t THEN 0 ELSE 1)
    /\ [][pc = "emit_failed" /\ pc' # "emit_failed"
            => /\ pc' = "next"
               /\ rx_closed' = rx_closed
               /\ queue' = queue]_vars
    /\ []( ( /\ open_result = "ok"
             /\ \/ pc = "flush"
                \/ pc = "done" /\ result # "Ok" )
             => write_result = "failed")

C33_Witness ==
    /\ pc = "done"
    /\ result = "Ok"
    /\ 1 \in env_failed
    /\ written = <<2, 3>>
    /\ ~rx_closed


\* C34: the result of find_regional with a threshold is the result of the
\* same call without a threshold (the limit oldest storage matches) with the
\* messages beyond the threshold left out, in the same order: the limit is
\* applied first, so the result may be shorter than the limit although more
\* messages within the threshold are stored.
C34_LimitBeforeDistance ==
    (last.op = "find_regional_messages" /\ last.dist_threshold # NoThreshold)
      => \E unfiltered \in
             GetResults(RegionalMatching(last.node_id, NoThreshold,
                                         last.since),
                        last.limit) :
           last.result =
             SelectSeq(unfiltered,
                       LAMBDA r : Distance(dest_node_id_of(r), last.node_id)
                                    <= last.dist_threshold)

C34_Witness ==
    /\ last.op = "find_regional_messages"
    /\ last.dist_threshold # NoThreshold
    /\ last.limit = 1
    /\ last.result = <<>>
    /\ RegionalMatching(last.node_id, last.dist_threshold, last.since) # {}


\* C31: the distance of two identifiers is the same in both directions, it
\* is never below the distance of an identifier to itself, which is zero,
\* and it is zero for equal identifiers only
C31_DistanceSymmetricAndMinimal ==
    measured # NoMeasure =>
      /\ measured.d = Distance(measured.b, measured.a)
      /\ Distance(measured.a, measured.a) = 0
      /\ measured.d >= 0
      /\ (measured.d = 0 => measured.a = measured.b)

C31_Witness ==
    /\ measured # NoMeasure
    /\ measured.a = NodeIdOf(1)
    /\ measured.b = NodeIdOf(2)
    /\ measured.d = 1

\* the comparers of chained[1..n] that return Equal before the first one
\* that does not
RECURSIVE EqualPrefix(_, _, _)
EqualPrefix(cs, a, b) ==
    IF cs = <<>> \/ compare(Head(cs), a, b) # Equal THEN 0
    ELSE 1 + EqualPrefix(Tail(cs), a, b)

\* C40: the comparer built from c1..cn returns what the first ci that does
\* not return Equal returns, and Equal when every ci returns Equal; its
\* compare() runs c1 up to that ci and no later comparer
C40_FirstNotEqualDecides ==
    compared.kind = "compared" =>
      LET n == Len(chained)
          k == EqualPrefix(chained, compared.a, compared.b)
      IN  /\ compared.ordering =
                IF k = n THEN Equal
                ELSE compare(chained[k + 1], compared.a, compared.b)
          /\ consulted(target, compared.a, compared.b) =
                SubSeq(chained, 1, IF k = n THEN n ELSE k + 1)

C40_Witness ==
    /\ compared.kind = "compared"
    /\ chained = <<HeightComparer, MoneroDifficultyComparer,
                   BlakeDifficultyComparer>>
    /\ compare(HeightComparer, compared.a, compared.b) = Equal
    /\ compare(MoneroDifficultyComparer, compared.a, compared.b) = Less
    /\ compare(BlakeDifficultyComparer, compared.a, compared.b) = Greater
    /\ compared.ordering = Less

\* block n was handed to propagate_block
Propagated(n) == \E i \in 1..Len(propagations) : propagations[i].block = n

\* the event of block n was taken by the event stream
Published(n) ==
    \E i \in 1..Len(block_events) :
       block_events[i].block = n /\ block_events[i].sent

\* C35 as stated: a handled block is propagated exactly when add_block
\* returned Ok or ChainReorg, with its source peer excluded
C35_PropagatesIffAdded ==
    \A n \in 1..Len(hb_results) :
       /\ Propagated(n) <=> hb_results[n].add_block_result \in {"Ok", "ChainReorg"}
       /\ \A i \in 1..Len(propagations) :
            (propagations[i].block = n /\ hb_results[n].source_peer # None)
              => hb_results[n].source_peer \in SeqRange(propagations[i].exclude_peers)

\* C35: a handled block is propagated exactly when add_block returned Ok or
\* ChainReorg and its block event was published; a block whose add result is
\* BlockExists or OrphanBlock, or whose validation failed, is never
\* propagated; the source peer, if any, is excluded from the propagation
C35_PropagatesIffAddedAndPublished ==
    \A n \in 1..Len(hb_results) :
       /\ Propagated(n) <=>
            (hb_results[n].add_block_result \in {"Ok", "ChainReorg"} /\ Published(n))
       /\ hb_results[n].add_block_result \in {"BlockExists", "OrphanBlock", "Err"}
            => ~Propagated(n)
       /\ \A i \in 1..Len(propagations) :
            (propagations[i].block = n /\ hb_results[n].source_peer # None)
              => hb_results[n].source_peer \in SeqRange(propagations[i].exclude_peers)

C35_Witness ==
    /\ Len(hb_results) = 2
    /\ hb_results[1].add_block_result = "ChainReorg"
    /\ hb_results[1].source_peer = 1
    /\ propagations = <<[block |-> 1, exclude_peers |-> <<1>>]>>
    /\ hb_results[2].add_block_result = "Ok"
    /\ hb_results[2].result = "EventStreamError"

\* the events of block n handed to the event stream
EventsOf(n) == SelectSeq(block_events, LAMBDA e : e.block = n)

\* C36: every handled block has exactly one block event handed to the event
\* stream, Verified when add_block returned a result and Invalid when it
\* returned an error; a block is handed to propagate_block only after its
\* event was published; when the event stream fails handle_block returns
\* EventStreamError and the block is not propagated
C36_OneEventBeforePropagation ==
    /\ [](\A n \in 1..Len(hb_results) :
            /\ Len(EventsOf(n)) = 1
            /\ EventsOf(n)[1].kind =
                  IF hb_results[n].add_block_result = "Err" THEN "Invalid"
                                                           ELSE "Verified"
            /\ EventsOf(n)[1].result = hb_results[n].add_block_result
            /\ ~EventsOf(n)[1].sent
                 => hb_results[n].result = "EventStreamError" /\ ~Propagated(n))
    /\ [][propagations' # propagations => Published(hb_block)]_vars

C36_Witness ==
    /\ Len(hb_results) = 2
    /\ hb_results[1].add_block_result = "Err"
    /\ hb_results[1].result = "Ok"
    /\ block_events[1].kind = "Invalid" /\ block_events[1].sent
    /\ hb_results[2].add_block_result = "Ok"
    /\ hb_results[2].result = "Ok"
    /\ block_events[2].kind = "Verified"
    /\ Propagated(2)

\* the walk returns as soon as a failed header request brings the number of
\* consecutive failed header requests to the limit, and not before
HeaderRetriesBounded ==
    ~linked_to_chain =>
      /\ (requests.header_fails >= 1
            /\ requests.header_fails >= config.max_header_request_retry_attempts)
           => sync_result = "MaxRequestAttemptsReached"
      /\ sync_result = "MaxRequestAttemptsReached"
           => requests.header_fails >= config.max_header_request_retry_attempts

\* no block is requested more often than the limit allows
BlockRequestsBounded ==
    \A h \in 1..MaxHeight :
       requests.blocks[h] <= config.max_block_request_retry_attempts

\* C37: the synchronization returns MaxRequestAttemptsReached as soon as
\* the consecutive failed header requests reach
\* max_header_request_retry_attempts, and it sends at most
\* max_block_request_retry_attempts requests for any one block
C37_RetriesBounded == HeaderRetriesBounded /\ BlockRequestsBounded

C39_BlockNeverAbsent ==
    /\ sync_result # "panic"
    /\ sync_pc = "unwrap" =>
         /\ block # NoBlock
         /\ block.hash = sync_block_hash
         /\ block.from = "orphan pool" => InOrphanPool(block.hash)
         /\ block.from = "peer" => requests.blocks[block.hash] >= 1

C39_Witness ==
    /\ sync_pc = "unwrap"
    /\ block.from = "peer"
    /\ config.max_block_request_retry_attempts = MaxRetries
    /\ attempts = MaxRetries - 1
====
